---- MODULE Spec2Model ----
(***************************************************************************)
(* A model of the ElevenLabs TTS adapter: the disk-backed LRU cache        *)
(* (package cache) and the streaming coordinator (package server).         *)
(*                                                                         *)
(* Strings are sequences of one-character strings, so that key+".pcm" and  *)
(* base[:len(base)-len(".pcm")] are computed, not assumed.  Byte slices    *)
(* are sequences of small integers.  Time is an integer clock; time.Now()  *)
(* never runs backwards but two readings may coincide.                     *)
(***************************************************************************)
EXTENDS Integers, Sequences, FiniteSets, TLC

\* ------------------------------------------------------------------ bounds
MaxTime == 2        \* the clock stops advancing here
MaxLen == 2         \* longest byte slice handed to Put by a direct caller
MaxCap == 2         \* largest maxBytes handed to New by a direct caller
MaxReads == 2       \* reads of a stream with no end that are followed up

\* ------------------------------------------------------------ value spaces
Procs == {1, 2}     \* goroutines calling into the cache

NoKey == <<>>       \* the empty string ""
Keys == {NoKey, <<"a">>, <<"b">>}
Bytes == {1, 2}
Fill(b, n) == [i \in 1..n |-> b]                 \* n bytes, all equal to b
\* what direct callers hand to Put: every length up to MaxLen, and two
\* different contents of one length
Data == {Fill(1, n) : n \in 0..MaxLen} \cup {Fill(b, 1) : b \in Bytes}
Ext == <<".", "p", "c", "m">>
Foreign == <<"x">>  \* a file of the directory that is no cache file

VARIABLES
    files,      \* the cache directory: base name -> [data, modTime]
    entries,    \* Cache.entries: key -> [size, accessedAt, path]
    maxBytes,   \* Cache.maxBytes
    cache,      \* "new" before New has run, "ready" after it, "nil" if it failed
    mu,         \* Cache.mu: 0 when free, else the goroutine holding it
    now,        \* the clock
    pc,         \* where each goroutine stands inside a call
    call,       \* the locals of the call each goroutine is in
    last,       \* the most recent completed call and what it returned
    stored,     \* key -> the bytes most recently accepted for a cached key
    server,     \* lazyTTSServer.server: <<>> until setServer, then <<the Server>>
    rq,         \* the StreamSynthesis call in progress: its locals and position
    sent,       \* the messages the stream has accepted from that call, in order
    ctxErr,     \* stream.Context().Err(): "" until the context is cancelled
    main,       \* the process: where main and its shutdown goroutine stand
    prev        \* <<>>, or <<a note of what was asked, now or by the call before>>

cacheVars == <<files, entries, maxBytes, cache, mu, now, pc, call, last, stored>>
streamVars == <<server, rq, sent, ctxErr, main, prev>>
vars == <<files, entries, maxBytes, cache, mu, now, pc, call, last, stored,
          server, rq, sent, ctxErr, main, prev>>

\* ----------------------------------------------------------------- helpers
RECURSIVE SumSizes(_, _)
SumSizes(e, ks) ==
    IF ks = {} THEN 0
    ELSE LET k == CHOOSE x \in ks : TRUE
         IN e[k].size + SumSizes(e, ks \ {k})

\* Cache.totalSize
totalSize(e) == SumSizes(e, DOMAIN e)

\* delete(m, k) and m[k] = v on a Go map; the same on the directory
Delete(m, k) == [x \in DOMAIN m \ {k} |-> m[x]]
Assign(m, k, v) == [x \in DOMAIN m \cup {k} |-> IF x = k THEN v ELSE m[x]]
EmptyMap == [x \in {} |-> 0]

\* filepath.Join(c.dir, key+".pcm"), as a base name inside c.dir
PathOf(key) == key \o Ext
\* base[:len(base)-len(".pcm")]
KeyOf(base) == SubSeq(base, 1, Len(base) - Len(Ext))
\* filepath.Glob(filepath.Join(c.dir, "*.pcm"))
IsPcm(name) ==
    /\ Len(name) >= Len(Ext)
    /\ SubSeq(name, Len(name) - Len(Ext) + 1, Len(name)) = Ext
Glob(fs) == {name \in DOMAIN fs : IsPcm(name)}

\* time.Now(): the readings the clock can give next
Ticks == {now} \cup ({now + 1} \cap (0..MaxTime))

NoCall == [key |-> NoKey, data |-> <<>>, total |-> 0, evicted |-> <<>>]
NoLast == [op |-> "none", key |-> NoKey, data |-> <<>>, hit |-> FALSE,
           err |-> FALSE, oversized |-> FALSE, indexed |-> FALSE,
           size |-> 0, evicted |-> <<>>, prevGet |-> <<>>]

\* For the record of a Put: the key the call just before it was a Get hit on
PrevGet == IF last.op = "Get" /\ last.hit THEN <<last.key>> ELSE <<>>

\* ------------------------------------------------------------ package cache
\* oldestKey with the comparison turned round (After for Before)
oldestKeyAfter(e) ==
    IF DOMAIN e = {} THEN {NoKey}
    ELSE {k \in DOMAIN e : \A j \in DOMAIN e : ~(e[j].accessedAt > e[k].accessedAt)}

\* Cache.oldestKey: the values it can return.  The map is ranged over in an
\* arbitrary order and a later entry replaces the candidate only when it is
\* strictly Before it, so any entry of least accessedAt can be the result;
\* the empty map yields "".
oldestKey(e) ==
    IF DOMAIN e = {} THEN {NoKey}
    ELSE {k \in DOMAIN e : \A j \in DOMAIN e : ~(e[j].accessedAt < e[k].accessedAt)}

\* Cache.evict, the loop, run to its end: every [entries, files, log] it can
\* leave, log being the keys removed, in order.  total is the local the loop
\* decrements and cap is c.maxBytes.
RECURSIVE evictLoop(_, _, _, _, _, _)
evictLoop(e, fs, total, needed, cap, log) ==
    IF total + needed > cap
    THEN UNION {
            IF oldest = NoKey
            THEN {[entries |-> e, files |-> fs, log |-> log]}
            ELSE evictLoop(Delete(e, oldest), Delete(fs, e[oldest].path),
                           total - e[oldest].size, needed, cap,
                           Append(log, oldest))
            : oldest \in oldestKey(e)}
    ELSE {[entries |-> e, files |-> fs, log |-> log]}

\* evict taking entries out of the index and leaving their files behind
evictKeepsFiles(e, fs, needed, cap) ==
    {[r EXCEPT !.files = fs] : r \in evictLoop(e, fs, totalSize(e), needed, cap, <<>>)}

\* Cache.evict
evict(e, fs, needed, cap) == evictLoop(e, fs, totalSize(e), needed, cap, <<>>)

\* loadExisting, the loop over the matches: one entry per *.pcm file, with the
\* file's size and modification time.  Stat is taken to succeed on a file
\* that Glob has just listed.
loadFiles(fs) ==
    [k \in {KeyOf(n) : n \in Glob(fs)} |->
        LET n == CHOOSE m \in Glob(fs) : KeyOf(m) = k
        IN [size |-> Len(fs[n].data), accessedAt |-> fs[n].modTime, path |-> n]]

\* loadExisting: evict(0) runs only when something was loaded
loadExisting(fs, cap) ==
    IF DOMAIN loadFiles(fs) # {}
    THEN evict(loadFiles(fs), fs, 0, cap)
    ELSE {[entries |-> loadFiles(fs), files |-> fs, log |-> <<>>]}

\* Put with the size guard comparing against nothing
OversizedNever(d) == FALSE

\* Put, the guard on the size of the data
Oversized(d) == Len(d) > maxBytes

\* os.ReadFile(e.path): whether it returns the bytes; ok = FALSE is a file
\* that is there but cannot be read
ReadFile(fs, path, ok) == path \in DOMAIN fs /\ ok

\* Get that forgets to refresh accessedAt on a hit
GetEntriesNoRefresh(e, fs, k, ok, t) ==
    IF k \notin DOMAIN e THEN e
    ELSE IF ~ReadFile(fs, e[k].path, ok) THEN Delete(e, k)
    ELSE e

\* Get that reports the miss but leaves the stale entry in the index
GetEntriesKeepStale(e, fs, k, ok, t) ==
    IF k \notin DOMAIN e THEN e
    ELSE IF ~ReadFile(fs, e[k].path, ok) THEN e
    ELSE [e EXCEPT ![k].accessedAt = t]

\* Get, from the lookup to the return: the index afterwards
GetEntries(e, fs, k, ok, t) ==
    IF k \notin DOMAIN e THEN e
    ELSE IF ~ReadFile(fs, e[k].path, ok) THEN Delete(e, k)
    ELSE [e EXCEPT ![k].accessedAt = t]

\* Get: the bool it returns
GetHit(e, fs, k, ok) == k \in DOMAIN e /\ ReadFile(fs, e[k].path, ok)
\* Get that returns the file's bytes but for the last
GetDataTruncated(e, fs, k) ==
    SubSeq(fs[e[k].path].data, 1, Len(fs[e[k].path].data) - 1)
\* Get: the bytes it returns on a hit
GetData(e, fs, k) == fs[e[k].path].data

\* Put, from the lookup of key to the return of evict: what it can leave
PutPrepare(e, fs, k, d, cap) ==
    IF k \in DOMAIN e
    THEN evict(Delete(e, k), Delete(fs, e[k].path), Len(d), cap)
    ELSE evict(e, fs, Len(d), cap)

\* os.WriteFile(p, data, 0o644), its outcomes: all of data written (ok); the
\* open failed and the file was not touched (~ok, ~touched); the write failed
\* after n < len(data) bytes, leaving a truncated file (~ok, touched), of
\* which the cases n = 0 and n = len(data) - 1 are taken
WriteOk(d) == [ok |-> TRUE, touched |-> TRUE, n |-> Len(d)]
WriteOutcomes(d) ==
    {WriteOk(d), [ok |-> FALSE, touched |-> FALSE, n |-> 0]}
    \cup {[ok |-> FALSE, touched |-> TRUE, n |-> m] :
               m \in {0, Len(d) - 1} \cap (0..(Len(d) - 1))}
\* WriteFile that drops the last byte
WriteFileShort(fs, path, d, t, outcome) ==
    IF outcome.touched
    THEN Assign(fs, path, [data |-> SubSeq(d, 1, outcome.n - 1), modTime |-> t])
    ELSE fs

WriteFile(fs, path, d, t, outcome) ==
    IF outcome.touched
    THEN Assign(fs, path, [data |-> SubSeq(d, 1, outcome.n), modTime |-> t])
    ELSE fs

\* Put that records the new entry whether or not the write succeeded
PutEntriesAlways(e, k, d, t, outcome) ==
    Assign(e, k, [size |-> Len(d), accessedAt |-> t, path |-> PathOf(k)])

\* Put that writes the file and records no entry
PutEntriesNever(e, k, d, t, outcome) == e

\* Put, after WriteFile: the index is touched only when the write succeeded
PutEntries(e, k, d, t, outcome) ==
    IF outcome.ok
    THEN Assign(e, k, [size |-> Len(d), accessedAt |-> t, path |-> PathOf(k)])
    ELSE e

\* sync.Mutex.Lock: whether a goroutine may take c.mu
CanLock == mu = 0

\* What `stored` keeps: the bytes of the keys still in the index
Keep(st, e) == [x \in DOMAIN st \cap DOMAIN e |-> st[x]]

\* New.  MkdirAll may fail, and then there is no cache.
New(cap, mkdirOk) ==
    /\ cache = "new"
    /\ IF ~mkdirOk
       THEN /\ cache' = "nil"
            /\ last' = [NoLast EXCEPT !.op = "New", !.err = TRUE]
            /\ UNCHANGED <<files, entries, maxBytes, stored>>
       ELSE \E r \in loadExisting(files, cap) :
               /\ entries' = r.entries
               /\ files' = r.files
               /\ maxBytes' = cap
               /\ stored' = [k \in DOMAIN r.entries |-> files[r.entries[k].path].data]
               /\ last' = [NoLast EXCEPT !.op = "New", !.evicted = r.log]
               /\ cache' = "ready"
    /\ UNCHANGED <<mu, now, pc, call>>
    /\ UNCHANGED streamVars

\* Put with data larger than maxBytes: returns nil before taking the lock
PutOversizedCall(p, k, d) ==
    /\ cache = "ready" /\ pc[p] = "idle"
    /\ Oversized(d)
    /\ last' = [NoLast EXCEPT !.op = "Put", !.key = k, !.oversized = TRUE,
                              !.size = Len(d),
                              !.indexed = (k \in DOMAIN entries)]
    /\ UNCHANGED <<files, entries, maxBytes, cache, mu, now, pc, call, stored>>

\* Put, whole, for data that is not oversized: Lock, removal of the entry
\* already under key, evict, WriteFile, the new entry, Unlock
PutCall(p, k, d, outcome) ==
    /\ cache = "ready" /\ pc[p] = "idle"
    /\ ~Oversized(d)
    /\ CanLock
    /\ outcome \in WriteOutcomes(d)
    /\ \E r \in PutPrepare(entries, files, k, d, maxBytes), t \in Ticks :
        /\ now' = (IF outcome.touched THEN t ELSE now)
        /\ files' = WriteFile(r.files, PathOf(k), d, t, outcome)
        /\ entries' = PutEntries(r.entries, k, d, t, outcome)
        /\ stored' = IF outcome.ok THEN Assign(Keep(stored, r.entries), k, d)
                                   ELSE Keep(stored, r.entries)
        /\ last' = [NoLast EXCEPT !.op = "Put", !.key = k, !.err = ~outcome.ok,
                                  !.indexed = (k \in DOMAIN entries),
                                  !.size = Len(d), !.evicted = r.log,
                                  !.prevGet = PrevGet]
    /\ UNCHANGED <<maxBytes, cache, mu, pc, call>>

\* A Get that returns with c.mu still locked
GetCallHolds(p, k, ok) ==
    /\ cache = "ready" /\ pc[p] = "idle"
    /\ CanLock
    /\ mu' = p
    /\ \E t \in Ticks :
        /\ now' = (IF GetHit(entries, files, k, ok) THEN t ELSE now)
        /\ entries' = GetEntries(entries, files, k, ok, t)
    /\ last' = [NoLast EXCEPT
                    !.op = "Get", !.key = k,
                    !.hit = GetHit(entries, files, k, ok),
                    !.data = (IF GetHit(entries, files, k, ok)
                              THEN GetData(entries, files, k) ELSE <<>>),
                    !.indexed = (k \in DOMAIN entries)]
    /\ stored' = Keep(stored, entries')
    /\ UNCHANGED <<files, maxBytes, cache, pc, call>>

\* Get, whole: Lock, lookup, ReadFile, refresh or self-heal, Unlock
GetCall(p, k, ok) ==
    /\ cache = "ready" /\ pc[p] = "idle"
    /\ CanLock
    /\ \E t \in Ticks :
        /\ now' = (IF GetHit(entries, files, k, ok) THEN t ELSE now)
        /\ entries' = GetEntries(entries, files, k, ok, t)
    /\ last' = [NoLast EXCEPT
                    !.op = "Get", !.key = k,
                    !.hit = GetHit(entries, files, k, ok),
                    !.data = (IF GetHit(entries, files, k, ok)
                              THEN GetData(entries, files, k) ELSE <<>>),
                    !.indexed = (k \in DOMAIN entries)]
    /\ stored' = Keep(stored, entries')
    /\ UNCHANGED <<files, maxBytes, cache, mu, pc, call>>

\* Put and Get called directly, outside any StreamSynthesis
PutOversized(p, k, d) == PutOversizedCall(p, k, d) /\ UNCHANGED streamVars
Put(p, k, d, outcome) == PutCall(p, k, d, outcome) /\ UNCHANGED streamVars
Get(p, k, ok) == GetCall(p, k, ok) /\ UNCHANGED streamVars

\* ---------------------------------------------- Put, one step at a time
\* For several goroutines: Put as the steps other goroutines can see between,
\* were it not for c.mu.

\* Put, from Lock to the call of evict: the entry already under key is
\* removed, and evict reads totalSize into its local
PutBeginCall(p, k, d) ==
    /\ cache = "ready" /\ pc[p] = "idle"
    /\ ~Oversized(d)
    /\ CanLock
    /\ mu' = p
    /\ LET kept == IF k \in DOMAIN entries THEN Delete(entries, k) ELSE entries
       IN /\ entries' = kept
          /\ files' = IF k \in DOMAIN entries
                       THEN Delete(files, entries[k].path) ELSE files
          /\ stored' = Keep(stored, kept)
          /\ call' = [call EXCEPT ![p] =
                         [key |-> k, data |-> d, total |-> totalSize(kept),
                          evicted |-> <<>>]]
    /\ pc' = [pc EXCEPT ![p] = "evict"]
    /\ UNCHANGED <<maxBytes, cache, now, last>>

\* Put called directly, outside any StreamSynthesis
PutBegin(p, k, d) == PutBeginCall(p, k, d) /\ UNCHANGED streamVars

\* evict, a turn of the loop that removes the file and leaves the index alone
EvictKeepsEntry(p) ==
    /\ pc[p] = "evict"
    /\ call[p].total + Len(call[p].data) > maxBytes
    /\ \E oldest \in oldestKey(entries) :
        /\ oldest # NoKey
        /\ files' = Delete(files, entries[oldest].path)
        /\ call' = [call EXCEPT ![p].total = @ - entries[oldest].size,
                                ![p].evicted = Append(@, oldest)]
    /\ UNCHANGED <<entries, stored, maxBytes, cache, mu, now, pc, last>>
    /\ UNCHANGED streamVars

\* evict, one turn of the loop that removes an entry
Evict(p) ==
    /\ pc[p] = "evict"
    /\ call[p].total + Len(call[p].data) > maxBytes
    /\ \E oldest \in oldestKey(entries) :
        /\ oldest # NoKey
        /\ files' = Delete(files, entries[oldest].path)
        /\ entries' = Delete(entries, oldest)
        /\ stored' = Keep(stored, entries')
        /\ call' = [call EXCEPT ![p].total = @ - entries[oldest].size,
                                ![p].evicted = Append(@, oldest)]
    /\ UNCHANGED <<maxBytes, cache, mu, now, pc, last>>
    /\ UNCHANGED streamVars

\* evict, leaving the loop: the total fits, or oldestKey returned ""
EvictDone(p) ==
    /\ pc[p] = "evict"
    /\ \/ call[p].total + Len(call[p].data) <= maxBytes
       \/ NoKey \in oldestKey(entries)
    /\ pc' = [pc EXCEPT ![p] = "write"]
    /\ UNCHANGED <<files, entries, maxBytes, cache, mu, now, call, last, stored>>
    /\ UNCHANGED streamVars

\* Put, from WriteFile to the return (the deferred Unlock included)
PutWrite(p, outcome) ==
    /\ cache = "ready" /\ pc[p] = "write"
    /\ outcome \in WriteOutcomes(call[p].data)
    /\ \E t \in Ticks :
        /\ now' = (IF outcome.touched THEN t ELSE now)
        /\ files' = WriteFile(files, PathOf(call[p].key), call[p].data, t, outcome)
        /\ entries' = PutEntries(entries, call[p].key, call[p].data, t, outcome)
    /\ stored' = IF outcome.ok
                 THEN Assign(Keep(stored, entries), call[p].key, call[p].data)
                 ELSE Keep(stored, entries)
    /\ last' = [NoLast EXCEPT !.op = "Put", !.key = call[p].key,
                              !.err = ~outcome.ok, !.size = Len(call[p].data),
                              !.evicted = call[p].evicted]
    /\ mu' = 0
    /\ pc' = [pc EXCEPT ![p] = "idle"]
    /\ call' = [call EXCEPT ![p] = NoCall]
    /\ UNCHANGED <<maxBytes, cache>>
    /\ UNCHANGED streamVars

\* ---------------------------------------------- New, one step at a time
\* New, from MkdirAll to the call of evict(0) in loadExisting: the index is
\* built from the directory, and evict is entered only with something loaded
NewBegin(p, cap) ==
    /\ cache = "new" /\ pc[p] = "idle"
    /\ entries' = loadFiles(files)
    /\ maxBytes' = cap
    /\ stored' = [k \in DOMAIN loadFiles(files) |->
                      files[loadFiles(files)[k].path].data]
    /\ IF DOMAIN loadFiles(files) # {}
       THEN /\ cache' = "loading"
            /\ pc' = [pc EXCEPT ![p] = "evict"]
            /\ call' = [call EXCEPT ![p] =
                           [key |-> NoKey, data |-> <<>>,
                            total |-> totalSize(loadFiles(files)),
                            evicted |-> <<>>]]
            /\ UNCHANGED last
       ELSE /\ cache' = "ready"
            /\ last' = [NoLast EXCEPT !.op = "New"]
            /\ UNCHANGED <<pc, call>>
    /\ UNCHANGED <<files, mu, now>>
    /\ UNCHANGED streamVars

\* New, from the return of evict(0) to its own return
NewEnd(p) ==
    /\ cache = "loading" /\ pc[p] = "write"
    /\ cache' = "ready"
    /\ last' = [NoLast EXCEPT !.op = "New", !.evicted = call[p].evicted]
    /\ pc' = [pc EXCEPT ![p] = "idle"]
    /\ call' = [call EXCEPT ![p] = NoCall]
    /\ UNCHANGED <<files, entries, maxBytes, mu, now, stored>>
    /\ UNCHANGED streamVars

\* ------------------------------------------------------------ package server
chunkSize == 4096
defaultSampleRate == 16000

StrAuto == <<"a", "u", "t", "o">>
StrClient == <<"c", "l", "i", "e", "n", "t">>
StrPl == <<"p", "l">>
NL == "\n"

\* The configuration the Server is built with, but for cfg.Language
CfgModel == <<"m">>
CfgVoiceID == <<"v">>
Nil == <<>>         \* a nil pointer; <<x>> is a pointer to x

\* fmt's %d of a non-negative int
DigitChars == <<"0", "1", "2", "3", "4", "5", "6", "7", "8", "9">>
RECURSIVE Itoa(_)
Itoa(n) == IF n < 10 THEN <<DigitChars[n + 1]>>
           ELSE Itoa(n \div 10) \o <<DigitChars[(n % 10) + 1]>>

\* fmt's %f of a float64 that is h hundredths, h >= 0
FmtF(h) ==
    Itoa(h \div 100) \o <<".", DigitChars[((h \div 10) % 10) + 1],
                          DigitChars[(h % 10) + 1], "0", "0", "0", "0">>

\* sha256 and %x: the digest of a message, taken to be free of collisions.
\* It is one symbol standing for 64 hex digits, whatever the message.
Sha256Hex(m) == <<m>>

\* A Key that writes the four required fields only
KeyBytesRequired(text, model, voiceID, languageCode, stability, similarityBoost, optimizeLatency) ==
    <<"t", "e", "x", "t", "=">> \o text \o <<NL>>
    \o <<"m", "o", "d", "e", "l", "=">> \o model \o <<NL>>
    \o <<"v", "o", "i", "c", "e", "=">> \o voiceID \o <<NL>>
    \o <<"l", "a", "n", "g", "=">> \o languageCode \o <<NL>>

\* cache.Key: the bytes written to the hash
KeyBytes(text, model, voiceID, languageCode, stability, similarityBoost, optimizeLatency) ==
    <<"t", "e", "x", "t", "=">> \o text \o <<NL>>
    \o <<"m", "o", "d", "e", "l", "=">> \o model \o <<NL>>
    \o <<"v", "o", "i", "c", "e", "=">> \o voiceID \o <<NL>>
    \o <<"l", "a", "n", "g", "=">> \o languageCode \o <<NL>>
    \o (IF stability # Nil
        THEN <<"s", "t", "a", "b", "i", "l", "i", "t", "y", "=">>
             \o FmtF(stability[1]) \o <<NL>>
        ELSE <<>>)
    \o (IF similarityBoost # Nil
        THEN <<"s", "i", "m", "i", "l", "a", "r", "i", "t", "y", "_",
               "b", "o", "o", "s", "t", "=">>
             \o FmtF(similarityBoost[1]) \o <<NL>>
        ELSE <<>>)
    \o (IF optimizeLatency # Nil
        THEN <<"o", "p", "t", "i", "m", "i", "z", "e", "_",
               "s", "t", "r", "e", "a", "m", "i", "n", "g", "_",
               "l", "a", "t", "e", "n", "c", "y", "=">>
             \o Itoa(optimizeLatency[1]) \o <<NL>>
        ELSE <<>>)

\* cache.Key
Key(text, model, voiceID, languageCode, stability, similarityBoost, optimizeLatency) ==
    Sha256Hex(KeyBytes(text, model, voiceID, languageCode, stability,
                       similarityBoost, optimizeLatency))

\* strings.TrimSpace, over the white space " " and tab
IsSpace(c) == c \in {" ", "\t"}
RECURSIVE TrimLeft(_)
TrimLeft(str) ==
    IF str # <<>> /\ IsSpace(Head(str)) THEN TrimLeft(Tail(str)) ELSE str
RECURSIVE TrimRight(_)
TrimRight(str) ==
    IF str # <<>> /\ IsSpace(str[Len(str)])
    THEN TrimRight(SubSeq(str, 1, Len(str) - 1)) ELSE str
\* a trim of the leading white space only
TrimLeftOnly(str) == TrimLeft(str)
TrimSpace(str) == TrimRight(TrimLeft(str))

\* metadata[k] on a Go map of strings: "" when k is absent
MapGet(metadata, k) == IF k \in DOMAIN metadata THEN metadata[k] ELSE <<>>

\* resolveLanguage
resolveLanguage(configLang, metadata) ==
    IF configLang # StrClient THEN configLang
    ELSE IF TrimSpace(MapGet(metadata, "nupi.lang.iso1")) # <<>>
         THEN TrimSpace(MapGet(metadata, "nupi.lang.iso1"))
         ELSE StrAuto

Min(a, b) == IF a < b THEN a ELSE b

\* n bytes of audio
Wave(n) == [i \in 1..n |-> i % 256]

\* The messages of a stream.  chunk is <<>> on a status-only message and
\* <<the AudioChunk>> otherwise (its Metadata, the same on every chunk of a
\* Server, is left out).
StatusMsg(status, metadata) ==
    [status |-> status, chunk |-> <<>>, errorMessage |-> "", metadata |-> metadata]
\* sendError that leaves the reason out
ErrorMsgBlank(message) ==
    [status |-> "ERROR", chunk |-> <<>>, errorMessage |-> "",
     metadata |-> EmptyMap]
ErrorMsg(message) ==
    [status |-> "ERROR", chunk |-> <<>>, errorMessage |-> message,
     metadata |-> EmptyMap]
\* a duration rounded up to the next millisecond
DurationMsCeil(n) == ((n \div 2) * 1000 + defaultSampleRate - 1) \div defaultSampleRate
\* samples := n / 2; durationMs := uint32((samples * 1000) / defaultSampleRate).
\* n is at most chunkSize, so the quotient is far below 2^32 and uint32 keeps it.
DurationMs(n) == ((n \div 2) * 1000) \div defaultSampleRate
\* a chunk message numbered from 0
ChunkMsgZeroBased(data, sequence, isLast) ==
    [status |-> "PLAYING",
     chunk |-> <<[data |-> data, sequence |-> sequence - 1,
                  first |-> (sequence - 1 = 1), last |-> isLast,
                  durationMs |-> DurationMs(Len(data))]>>,
     errorMessage |-> "", metadata |-> EmptyMap]
ChunkMsg(data, sequence, isLast) ==
    [status |-> "PLAYING",
     chunk |-> <<[data |-> data, sequence |-> sequence, first |-> (sequence = 1),
                  last |-> isLast, durationMs |-> DurationMs(Len(data))]>>,
     errorMessage |-> "", metadata |-> EmptyMap]

\* stream.Send that takes a second copy of every status-only message
SendTwice(q, msg, sendOk) ==
    IF sendOk
    THEN (IF msg.chunk = <<>> THEN Append(Append(q, msg), msg) ELSE Append(q, msg))
    ELSE q

\* stream.Send: the stream takes the message, or the transport fails
Send(q, msg, sendOk) == IF sendOk THEN Append(q, msg) ELSE q

\* What StreamSynthesis returns after a Send: "send" is the transport's error
AfterSend(sendOk, ret) == IF sendOk THEN ret ELSE "send"

NoRq == [pc |-> "idle", text |-> <<>>, lang |-> <<>>, key |-> NoKey,
         data |-> <<>>, offset |-> 0, body |-> <<>>, sequence |-> 0,
         totalBytes |-> 0, accumulated |-> <<>>, ret |-> "",
         synthCalls |-> 0, reads |-> 0, puts |-> 0, putErr |-> FALSE,
         languageCode |-> <<>>, sendFailed |-> FALSE,
         sends |-> 0, gets |-> 0, hit |-> FALSE, audio |-> <<>>,
         cancelledAt |-> <<>>, synthErr |-> FALSE, readErr |-> FALSE,
         endless |-> FALSE]

\* The return of StreamSynthesis: the buffers it held go with its frame
Return(r, sendOk, ret) ==
    [r EXCEPT !.pc = "done", !.ret = AfterSend(sendOk, ret),
              !.sendFailed = ~sendOk, !.sends = @ + 1,
              !.data = <<>>, !.body = <<>>, !.accumulated = <<>>]

\* The payloads of the chunks of q, concatenated in order
RECURSIVE Payload(_)
Payload(q) ==
    IF q = <<>> THEN <<>>
    ELSE Payload(SubSeq(q, 1, Len(q) - 1))
         \o (IF q[Len(q)].chunk = <<>> THEN <<>> ELSE q[Len(q)].chunk[1].data)
\* The messages of q that carry a chunk
Chunks(q) == SelectSeq(q, LAMBDA msg : msg.chunk # <<>>)
\* The request has ended with FINISHED
Finished == rq.pc = "done" /\ sent # <<>> /\ sent[Len(sent)].status = "FINISHED"

\* main, steps 5 and 6, when no cache is configured
NoCache ==
    /\ cache = "new"
    /\ cache' = "nil"
    /\ last' = NoLast
    /\ UNCHANGED <<files, entries, maxBytes, mu, now, pc, call, stored>>
    /\ UNCHANGED streamVars

\* main, step 6: server.New and setServer
Activate(language) ==
    /\ cache \in {"ready", "nil"}
    /\ server = <<>>
    /\ server' = <<[Language |-> language, Model |-> CfgModel,
                    VoiceID |-> CfgVoiceID, Stability |-> Nil,
                    SimilarityBoost |-> Nil, OptimizeStreamingLatency |-> Nil]>>
    /\ UNCHANGED cacheVars
    /\ UNCHANGED <<rq, sent, ctxErr, main, prev>>

\* StreamSynthesis, from its entry to the Send of STARTED (or of the ERROR
\* that answers an empty text)
BeginCall(text, metadata, sendOk) ==
    /\ server # <<>>
    /\ rq.pc \in {"idle", "done"}
    /\ ctxErr' = ""
    /\ IF text = <<>>
       THEN /\ sent' = Send(<<>>, ErrorMsg("text is required"), sendOk)
            /\ rq' = Return([NoRq EXCEPT !.text = text], sendOk, "error")
       ELSE /\ sent' = Send(<<>>, StatusMsg("STARTED", EmptyMap), sendOk)
            /\ rq' = IF sendOk
                     THEN [NoRq EXCEPT
                             !.pc = "lookup", !.text = text, !.sends = 1,
                             !.lang = resolveLanguage(server[1].Language, metadata)]
                     ELSE Return([NoRq EXCEPT !.text = text], sendOk, "")
    /\ UNCHANGED cacheVars
    /\ UNCHANGED <<server, main>>

\* A call of StreamSynthesis
Begin(text, metadata, sendOk) == BeginCall(text, metadata, sendOk) /\ UNCHANGED prev

\* A call of StreamSynthesis, with a note of the call before it if that one
\* missed the cache and ended FINISHED: its text, its language and the bytes
\* it streamed
BeginAfter(text, metadata, sendOk) ==
    /\ BeginCall(text, metadata, sendOk)
    /\ prev' = IF Finished /\ rq.gets = 1 /\ ~rq.hit
               THEN <<[text |-> rq.text, lang |-> rq.lang,
                       payload |-> Payload(sent)]>>
               ELSE <<>>

\* A call of StreamSynthesis, with a note of the metadata it came with and,
\* if the call before it got as far as its cache key, of that call's text,
\* resolved language, key and languageCode
BeginNoting(text, metadata, sendOk) ==
    /\ BeginCall(text, metadata, sendOk)
    /\ prev' = <<[metadata |-> metadata,
                  before |-> IF rq.pc = "done" /\ rq.key # NoKey
                             THEN <<[text |-> rq.text, lang |-> rq.lang,
                                     key |-> rq.key,
                                     languageCode |-> rq.languageCode]>>
                             ELSE <<>>]>>

\* StreamSynthesis that derives its key from the LanguageCode of the synthesis
\* request, empty under "auto"
CacheLookupByCode(readOk) ==
    /\ rq.pc = "lookup"
    /\ LET cacheKey == IF cache = "ready"
                       THEN Key(rq.text, server[1].Model, server[1].VoiceID,
                                IF rq.lang # StrAuto THEN rq.lang ELSE <<>>,
                                server[1].Stability,
                                server[1].SimilarityBoost,
                                server[1].OptimizeStreamingLatency)
                       ELSE NoKey
           r == [rq EXCEPT !.key = cacheKey,
                           !.gets = IF cache = "ready" THEN @ + 1 ELSE @,
                           !.hit = (cache = "ready"
                                    /\ GetHit(entries, files, cacheKey, readOk)),
                           !.languageCode = IF rq.lang # StrAuto THEN rq.lang
                                                                ELSE <<>>]
       IN IF cache = "ready"
          THEN /\ GetCall(1, cacheKey, readOk)
               /\ rq' = IF GetHit(entries, files, cacheKey, readOk)
                        THEN [r EXCEPT !.pc = "replayPlaying",
                                       !.data = GetData(entries, files, cacheKey)]
                        ELSE [r EXCEPT !.pc = "synth"]
          ELSE /\ rq' = [r EXCEPT !.pc = "synth"]
               /\ UNCHANGED cacheVars
    /\ UNCHANGED <<server, sent, ctxErr, main, prev>>

\* StreamSynthesis, from building the synthesis request to the cache lookup
CacheLookup(readOk) ==
    /\ rq.pc = "lookup"
    /\ LET cacheKey == IF cache = "ready"
                       THEN Key(rq.text, server[1].Model, server[1].VoiceID,
                                rq.lang, server[1].Stability,
                                server[1].SimilarityBoost,
                                server[1].OptimizeStreamingLatency)
                       ELSE NoKey
           r == [rq EXCEPT !.key = cacheKey,
                           !.gets = IF cache = "ready" THEN @ + 1 ELSE @,
                           !.hit = (cache = "ready"
                                    /\ GetHit(entries, files, cacheKey, readOk)),
                           !.languageCode = IF rq.lang # StrAuto THEN rq.lang
                                                                ELSE <<>>]
       IN IF cache = "ready"
          THEN /\ GetCall(1, cacheKey, readOk)
               /\ rq' = IF GetHit(entries, files, cacheKey, readOk)
                        THEN [r EXCEPT !.pc = "replayPlaying",
                                       !.data = GetData(entries, files, cacheKey)]
                        ELSE [r EXCEPT !.pc = "synth"]
          ELSE /\ rq' = [r EXCEPT !.pc = "synth"]
               /\ UNCHANGED cacheVars
    /\ UNCHANGED <<server, sent, ctxErr, main, prev>>

\* StreamSynthesis that takes a failed SynthesizeStream for an empty stream
SynthesizeSwallows(ok, audio, sendOk) ==
    /\ rq.pc = "synth"
    /\ rq' = [rq EXCEPT !.pc = "playing", !.body = IF ok THEN audio ELSE <<>>,
                        !.audio = IF ok THEN audio ELSE <<>>,
                        !.synthCalls = @ + 1, !.synthErr = ~ok]
    /\ sent' = sent
    /\ UNCHANGED cacheVars
    /\ UNCHANGED <<server, ctxErr, main, prev>>

\* StreamSynthesis, the call of SynthesizeStream: it fails, and ERROR is
\* sent, or it returns a stream that will yield audio
Synthesize(ok, audio, sendOk) ==
    /\ rq.pc = "synth"
    /\ IF ok
       THEN /\ rq' = [rq EXCEPT !.pc = "playing", !.body = audio,
                                !.audio = audio, !.synthCalls = @ + 1]
            /\ sent' = sent
       ELSE /\ sent' = Send(sent, ErrorMsg("synthesis failed: upstream"), sendOk)
            /\ rq' = Return([rq EXCEPT !.synthCalls = @ + 1, !.synthErr = TRUE],
                            sendOk, "error")
    /\ UNCHANGED cacheVars
    /\ UNCHANGED <<server, ctxErr, main, prev>>

\* StreamSynthesis that goes on to its read loop when the Send of PLAYING failed
SendPlayingGoesOn(sendOk) ==
    /\ rq.pc = "playing"
    /\ sent' = Send(sent, StatusMsg("PLAYING", EmptyMap), sendOk)
    /\ rq' = [rq EXCEPT !.pc = "loop", !.sends = @ + 1]
    /\ UNCHANGED cacheVars
    /\ UNCHANGED <<server, ctxErr, main, prev>>

\* StreamSynthesis, the Send of the status-only PLAYING
SendPlaying(sendOk) ==
    /\ rq.pc = "playing"
    /\ sent' = Send(sent, StatusMsg("PLAYING", EmptyMap), sendOk)
    /\ rq' = IF sendOk THEN [rq EXCEPT !.pc = "loop", !.sends = @ + 1]
                       ELSE Return(rq, sendOk, "")
    /\ UNCHANGED cacheVars
    /\ UNCHANGED <<server, ctxErr, main, prev>>

\* audioStream.Read(buffer): how many bytes one Read may deliver
ReadSizes(body) == {Min(chunkSize, Len(body)), Min(chunkSize \div 2, Len(body))}

\* A read loop that leaves on cancellation as it leaves on end-of-stream, with
\* what it has accumulated
LoopStepKeepsPartial(n, err, sendOk) ==
    /\ rq.pc = "loop"
    /\ IF ctxErr # ""
       THEN /\ sent' = sent
            /\ rq' = [rq EXCEPT !.pc = "store"]
       ELSE /\ n \in ReadSizes(rq.body) \cup {0}
            /\ err \in {"", "EOF", "error"}
            /\ err = "EOF" => n = Len(rq.body)
            /\ ~(n = 0 /\ err = "")
            /\ LET data == SubSeq(rq.body, 1, n)
                   r1 == [rq EXCEPT !.reads = @ + 1, !.readErr = (err = "error"),
                                    !.body = SubSeq(@, n + 1, Len(@)),
                                    !.totalBytes = IF n > 0 THEN @ + n ELSE @,
                                    !.sequence = IF n > 0 THEN @ + 1 ELSE @,
                                    !.sends = IF n > 0 /\ sendOk THEN @ + 1 ELSE @]
                   r2 == IF n > 0 /\ cache = "ready"
                         THEN [r1 EXCEPT !.accumulated = @ \o data] ELSE r1
               IN IF n > 0 /\ ~sendOk
                  THEN /\ sent' = sent
                       /\ rq' = Return(r1, FALSE, "")
                  ELSE /\ sent' = IF n > 0
                                  THEN Send(sent, ChunkMsg(data, r1.sequence,
                                                           err = "EOF"), TRUE)
                                  ELSE sent
                       /\ rq' = [r2 EXCEPT !.pc = CASE err = "" -> "loop"
                                                   [] err = "EOF" -> "store"
                                                   [] OTHER -> "readErr"]
    /\ UNCHANGED cacheVars
    /\ UNCHANGED <<server, ctxErr, main, prev>>

\* A read loop that leaves on any error of Read as it leaves on end-of-stream
LoopStepErrAsEof(n, err, sendOk) ==
    /\ rq.pc = "loop"
    /\ IF ctxErr # ""
       THEN /\ sent' = Send(sent, StatusMsg("INTERRUPTED", [reason |-> ctxErr]),
                            sendOk)
            /\ rq' = Return(rq, sendOk, "ok")
       ELSE /\ n \in ReadSizes(rq.body) \cup {0}
            /\ err \in {"", "EOF", "error"}
            /\ err = "EOF" => n = Len(rq.body)
            /\ ~(n = 0 /\ err = "")
            /\ LET data == SubSeq(rq.body, 1, n)
                   r1 == [rq EXCEPT !.reads = @ + 1, !.readErr = (err = "error"),
                                    !.body = SubSeq(@, n + 1, Len(@)),
                                    !.totalBytes = IF n > 0 THEN @ + n ELSE @,
                                    !.sequence = IF n > 0 THEN @ + 1 ELSE @,
                                    !.sends = IF n > 0 /\ sendOk THEN @ + 1 ELSE @]
                   r2 == IF n > 0 /\ cache = "ready"
                         THEN [r1 EXCEPT !.accumulated = @ \o data] ELSE r1
               IN IF n > 0 /\ ~sendOk
                  THEN /\ sent' = sent
                       /\ rq' = Return(r1, FALSE, "")
                  ELSE /\ sent' = IF n > 0
                                  THEN Send(sent, ChunkMsg(data, r1.sequence,
                                                           err = "EOF"), TRUE)
                                  ELSE sent
                       /\ rq' = [r2 EXCEPT !.pc = CASE err = "" -> "loop"
                                                   [] OTHER -> "store"]
    /\ UNCHANGED cacheVars
    /\ UNCHANGED <<server, ctxErr, main, prev>>

\* StreamSynthesis, one turn of the read loop: the look at ctx.Done(), the
\* Read, and the Send of the chunk if bytes were read.  err is what the Read
\* returned besides n: "" (nil), "EOF" or "error".
LoopStep(n, err, sendOk) ==
    /\ rq.pc = "loop" /\ ~rq.endless
    /\ IF ctxErr # ""
       THEN /\ sent' = Send(sent, StatusMsg("INTERRUPTED", [reason |-> ctxErr]),
                            sendOk)
            /\ rq' = Return(rq, sendOk, "ok")
       ELSE /\ n \in ReadSizes(rq.body) \cup {0}
            /\ err \in {"", "EOF", "error"}
            /\ err = "EOF" => n = Len(rq.body)
            /\ ~(n = 0 /\ err = "")
            /\ LET data == SubSeq(rq.body, 1, n)
                   r1 == [rq EXCEPT !.reads = @ + 1, !.readErr = (err = "error"),
                                    !.body = SubSeq(@, n + 1, Len(@)),
                                    !.totalBytes = IF n > 0 THEN @ + n ELSE @,
                                    !.sequence = IF n > 0 THEN @ + 1 ELSE @,
                                    !.sends = IF n > 0 /\ sendOk THEN @ + 1 ELSE @]
                   r2 == IF n > 0 /\ cache = "ready"
                         THEN [r1 EXCEPT !.accumulated = @ \o data] ELSE r1
               IN IF n > 0 /\ ~sendOk
                  THEN /\ sent' = sent
                       /\ rq' = Return(r1, FALSE, "")
                  ELSE /\ sent' = IF n > 0
                                  THEN Send(sent, ChunkMsg(data, r1.sequence,
                                                           err = "EOF"), TRUE)
                                  ELSE sent
                       /\ rq' = [r2 EXCEPT !.pc = CASE err = "" -> "loop"
                                                   [] err = "EOF" -> "store"
                                                   [] OTHER -> "readErr"]
    /\ UNCHANGED cacheVars
    /\ UNCHANGED <<server, ctxErr, main, prev>>

\* SynthesizeStream returns a stream that has no end: every Read of it fills
\* the buffer and returns no error
SynthesizeEndless ==
    /\ rq.pc = "synth"
    /\ rq' = [rq EXCEPT !.pc = "playing", !.body = Wave(chunkSize),
                        !.audio = Wave(chunkSize), !.endless = TRUE,
                        !.synthCalls = @ + 1]
    /\ UNCHANGED cacheVars
    /\ UNCHANGED <<server, sent, ctxErr, main, prev>>

\* A read loop over a stream with no end that never looks at ctx.Done()
EndlessReadDeaf(sendOk) ==
    /\ rq.pc = "loop" /\ rq.endless
    /\ rq.reads < MaxReads
    /\ LET r1 == [rq EXCEPT !.reads = @ + 1, !.totalBytes = @ + chunkSize,
                            !.sequence = @ + 1]
           r2 == IF cache = "ready"
                 THEN [r1 EXCEPT !.accumulated = @ \o rq.body] ELSE r1
       IN /\ sent' = Send(sent, ChunkMsg(rq.body, r1.sequence, FALSE), sendOk)
          /\ rq' = IF sendOk THEN [r2 EXCEPT !.sends = @ + 1]
                             ELSE Return(r1, FALSE, "")
    /\ UNCHANGED cacheVars
    /\ UNCHANGED <<server, ctxErr, main, prev>>

\* StreamSynthesis, one turn of the read loop over a stream with no end: the
\* look at ctx.Done(), the Read that fills the buffer, the Send of the chunk
EndlessRead(sendOk) ==
    /\ rq.pc = "loop" /\ rq.endless
    /\ IF ctxErr # ""
       THEN /\ sent' = Send(sent, StatusMsg("INTERRUPTED", [reason |-> ctxErr]),
                            sendOk)
            /\ rq' = Return(rq, sendOk, "ok")
       ELSE /\ rq.reads < MaxReads
            /\ LET r1 == [rq EXCEPT !.reads = @ + 1, !.totalBytes = @ + chunkSize,
                                    !.sequence = @ + 1]
                   r2 == IF cache = "ready"
                         THEN [r1 EXCEPT !.accumulated = @ \o rq.body] ELSE r1
               IN /\ sent' = Send(sent, ChunkMsg(rq.body, r1.sequence, FALSE),
                                  sendOk)
                  /\ rq' = IF sendOk THEN [r2 EXCEPT !.sends = @ + 1]
                                     ELSE Return(r1, FALSE, "")
    /\ UNCHANGED cacheVars
    /\ UNCHANGED <<server, ctxErr, main, prev>>

\* StreamSynthesis, the ERROR that answers a failed Read
SendReadError(sendOk) ==
    /\ rq.pc = "readErr"
    /\ sent' = Send(sent, ErrorMsg("stream read error: upstream"), sendOk)
    /\ rq' = Return(rq, sendOk, "error")
    /\ UNCHANGED cacheVars
    /\ UNCHANGED <<server, ctxErr, main, prev>>

\* StreamSynthesis that calls Put whatever it accumulated, nothing too
StoreAlways(outcome) ==
    /\ rq.pc = "store"
    /\ IF cache = "ready"
       THEN \/ /\ PutOversizedCall(1, rq.key, rq.accumulated)
               /\ outcome = WriteOk(rq.accumulated)
               /\ rq' = [rq EXCEPT !.pc = "finish", !.puts = @ + 1]
            \/ /\ PutCall(1, rq.key, rq.accumulated, outcome)
               /\ rq' = [rq EXCEPT !.pc = "finish", !.puts = @ + 1,
                                   !.putErr = ~outcome.ok]
       ELSE /\ outcome = WriteOk(rq.accumulated)
            /\ rq' = [rq EXCEPT !.pc = "finish"]
            /\ UNCHANGED cacheVars
    /\ UNCHANGED <<server, sent, ctxErr, main, prev>>

\* StreamSynthesis going from its loop to FINISHED with no Put on the way
StoreNothing(outcome) ==
    /\ rq.pc = "store"
    /\ outcome = WriteOk(rq.accumulated)
    /\ rq' = [rq EXCEPT !.pc = "finish"]
    /\ UNCHANGED cacheVars
    /\ UNCHANGED <<server, sent, ctxErr, main, prev>>

\* StreamSynthesis, after the loop: the Put of what was accumulated
Store(outcome) ==
    /\ rq.pc = "store"
    /\ IF cache = "ready" /\ Len(rq.accumulated) > 0
       THEN \/ /\ PutOversizedCall(1, rq.key, rq.accumulated)
               /\ outcome = WriteOk(rq.accumulated)
               /\ rq' = [rq EXCEPT !.pc = "finish", !.puts = @ + 1]
            \/ /\ PutCall(1, rq.key, rq.accumulated, outcome)
               /\ rq' = [rq EXCEPT !.pc = "finish", !.puts = @ + 1,
                                   !.putErr = ~outcome.ok]
       ELSE /\ outcome = WriteOk(rq.accumulated)
            /\ rq' = [rq EXCEPT !.pc = "finish"]
            /\ UNCHANGED cacheVars
    /\ UNCHANGED <<server, sent, ctxErr, main, prev>>

\* StreamSynthesis, the Put after the loop as other goroutines see it: the
\* call of Put up to its evict, with c.mu taken
StoreStart ==
    /\ rq.pc = "store"
    /\ cache = "ready" /\ Len(rq.accumulated) > 0
    /\ PutBeginCall(1, rq.key, rq.accumulated)
    /\ rq' = [rq EXCEPT !.pc = "storing", !.puts = @ + 1]
    /\ UNCHANGED <<server, sent, ctxErr, main, prev>>

\* StreamSynthesis, a Put that takes no lock (too large for the cache), or no
\* Put at all (nothing accumulated, or no cache)
StoreOther ==
    /\ cache = "ready" /\ Len(rq.accumulated) > 0 => Oversized(rq.accumulated)
    /\ Store(WriteOk(rq.accumulated))

\* StreamSynthesis, back from its Put
StoreEnd ==
    /\ rq.pc = "storing" /\ pc[1] = "idle"
    /\ rq' = [rq EXCEPT !.pc = "finish"]
    /\ UNCHANGED cacheVars
    /\ UNCHANGED <<server, sent, ctxErr, main, prev>>

\* StreamSynthesis that answers a failed Put with an ERROR
FinishStrict(sendOk) ==
    /\ rq.pc = "finish"
    /\ sent' = Send(sent,
                    IF rq.putErr
                    THEN ErrorMsg("cache write failed")
                    ELSE StatusMsg("FINISHED",
                                   [total_bytes |-> Itoa(rq.totalBytes),
                                    total_chunks |-> Itoa(rq.sequence),
                                    duration_sec |-> "%.2f",
                                    text_length |-> Itoa(Len(rq.text))]),
                    sendOk)
    /\ rq' = Return(rq, sendOk, IF rq.putErr THEN "error" ELSE "ok")
    /\ UNCHANGED cacheVars
    /\ UNCHANGED <<server, ctxErr, main, prev>>

\* StreamSynthesis, the Send of FINISHED.  duration_sec is wall time, which
\* is not modelled: its value stands for whatever %.2f printed.
Finish(sendOk) ==
    /\ rq.pc = "finish"
    /\ sent' = Send(sent,
                    StatusMsg("FINISHED",
                              [total_bytes |-> Itoa(rq.totalBytes),
                               total_chunks |-> Itoa(rq.sequence),
                               duration_sec |-> "%.2f",
                               text_length |-> Itoa(Len(rq.text))]),
                    sendOk)
    /\ rq' = Return(rq, sendOk, "ok")
    /\ UNCHANGED cacheVars
    /\ UNCHANGED <<server, ctxErr, main, prev>>

\* streamFromBytes, the Send of the status-only PLAYING
ReplayPlaying(sendOk) ==
    /\ rq.pc = "replayPlaying"
    /\ sent' = Send(sent, StatusMsg("PLAYING", EmptyMap), sendOk)
    /\ rq' = IF sendOk
             THEN [rq EXCEPT !.pc = "replay", !.totalBytes = Len(rq.data),
                             !.sends = @ + 1]
             ELSE Return(rq, sendOk, "")
    /\ UNCHANGED cacheVars
    /\ UNCHANGED <<server, ctxErr, main, prev>>

\* streamFromBytes whose loop never looks at the context
ReplayChunkDeaf(sendOk) ==
    /\ rq.pc = "replay"
    /\ rq.offset < Len(rq.data)
    /\ LET end == Min(rq.offset + chunkSize, Len(rq.data))
           r1 == [rq EXCEPT !.sequence = @ + 1]
       IN /\ sent' = Send(sent,
                          ChunkMsg(SubSeq(rq.data, rq.offset + 1, end),
                                   r1.sequence, end = Len(rq.data)),
                          sendOk)
          /\ rq' = IF sendOk
                   THEN [r1 EXCEPT !.offset = @ + chunkSize, !.sends = @ + 1]
                   ELSE Return(r1, sendOk, "")
    /\ UNCHANGED cacheVars
    /\ UNCHANGED <<server, ctxErr, main, prev>>

\* streamFromBytes, one turn of the loop over the cached bytes
ReplayChunk(sendOk) ==
    /\ rq.pc = "replay"
    /\ rq.offset < Len(rq.data)
    /\ IF ctxErr # ""
       THEN /\ sent' = Send(sent, StatusMsg("INTERRUPTED", [reason |-> ctxErr]),
                            sendOk)
            /\ rq' = Return(rq, sendOk, "ok")
       ELSE LET end == Min(rq.offset + chunkSize, Len(rq.data))
                r1 == [rq EXCEPT !.sequence = @ + 1]
            IN /\ sent' = Send(sent,
                               ChunkMsg(SubSeq(rq.data, rq.offset + 1, end),
                                        r1.sequence, end = Len(rq.data)),
                               sendOk)
               /\ rq' = IF sendOk
                        THEN [r1 EXCEPT !.offset = @ + chunkSize, !.sends = @ + 1]
                        ELSE Return(r1, sendOk, "")
    /\ UNCHANGED cacheVars
    /\ UNCHANGED <<server, ctxErr, main, prev>>

\* streamFromBytes, a FINISHED that counts the chunks as len(data) / chunkSize
ReplayFinishWholeChunks(sendOk) ==
    /\ rq.pc = "replay"
    /\ rq.offset >= Len(rq.data)
    /\ sent' = Send(sent,
                    StatusMsg("FINISHED",
                              [total_bytes |-> Itoa(rq.totalBytes),
                               total_chunks |-> Itoa(Len(rq.data) \div chunkSize),
                               text_length |-> Itoa(Len(rq.text)),
                               source |-> "cache"]),
                    sendOk)
    /\ rq' = Return(rq, sendOk, "ok")
    /\ UNCHANGED cacheVars
    /\ UNCHANGED <<server, ctxErr, main, prev>>

\* streamFromBytes, after the loop: the Send of FINISHED
ReplayFinish(sendOk) ==
    /\ rq.pc = "replay"
    /\ rq.offset >= Len(rq.data)
    /\ sent' = Send(sent,
                    StatusMsg("FINISHED",
                              [total_bytes |-> Itoa(rq.totalBytes),
                               total_chunks |-> Itoa(rq.sequence),
                               text_length |-> Itoa(Len(rq.text)),
                               source |-> "cache"]),
                    sendOk)
    /\ rq' = Return(rq, sendOk, "ok")
    /\ UNCHANGED cacheVars
    /\ UNCHANGED <<server, ctxErr, main, prev>>

\* The audio bytes the call in progress has still to emit
BytesLeft ==
    IF rq.pc \in {"replayPlaying", "replay"}
    THEN Len(rq.data) - Min(rq.offset, Len(rq.data))
    ELSE Len(rq.body)

\* ctx.Err().Error() of a context that is done
CtxErrors == {"context canceled", "context deadline exceeded"}

\* The caller cancels the stream's context, or its deadline passes, while the
\* call is in progress.
\* rq.cancelledAt notes how far the call had come.
Cancel(reason) ==
    /\ rq.pc \notin {"idle", "done"}
    /\ ctxErr = ""
    /\ ctxErr' = reason
    /\ rq' = [rq EXCEPT !.cancelledAt = <<[chunks |-> rq.sequence,
                                           left |-> BytesLeft]>>]
    /\ UNCHANGED cacheVars
    /\ UNCHANGED <<server, sent, main, prev>>

\* -------------------------------------------------------------- package main
\* main after step 3: the listener is bound, the gRPC server serves with the
\* lazy service registered, both health entries say NOT_SERVING, and no
\* signal has come.  pc is where main stands ("init": steps 4 to 6, "wait":
\* the select of step 8, "exited": it has returned), gr where the goroutine
\* of step 7 stands, stopped whether GracefulStop has returned and closed its
\* channel, timer the time.After of that goroutine's select.
MainStart ==
    [pc |-> "init", health |-> "NOT_SERVING", grpc |-> "serving",
     signal |-> FALSE, gr |-> "none", stopped |-> FALSE, timer |-> "off"]

\* The process has not exited
Running == main.pc # "exited"
\* A StreamSynthesis call is in progress
InFlight == rq.pc \notin {"idle", "done"}

\* lazyTTSServer.StreamSynthesis while server.Load() is nil: the call
\* returns Unavailable and nothing is sent
BeginUnavailable(text) ==
    /\ server = <<>>
    /\ rq.pc \in {"idle", "done"}
    /\ rq' = [NoRq EXCEPT !.pc = "done", !.text = text, !.ret = "unavailable"]
    /\ sent' = <<>>
    /\ ctxErr' = ""
    /\ UNCHANGED cacheVars
    /\ UNCHANGED <<server, main, prev>>

\* main that reports SERVING without looking at the lazy service
SetServingEarly ==
    /\ main.pc = "init"
    /\ main' = [main EXCEPT !.health = "SERVING", !.pc = "wait", !.gr = "waiting"]
    /\ UNCHANGED cacheVars
    /\ UNCHANGED <<server, rq, sent, ctxErr, prev>>

\* main, the end of step 6 and step 7: after setServer both health entries
\* are set to SERVING, the shutdown goroutine is started, and main goes to
\* its select
SetServing ==
    /\ main.pc = "init"
    /\ server # <<>>
    /\ main' = [main EXCEPT !.health = "SERVING", !.pc = "wait", !.gr = "waiting"]
    /\ UNCHANGED cacheVars
    /\ UNCHANGED <<server, rq, sent, ctxErr, prev>>

\* SIGINT or SIGTERM arrives: the context of signal.NotifyContext is done
Signal ==
    /\ Running /\ ~main.signal
    /\ main' = [main EXCEPT !.signal = TRUE]
    /\ UNCHANGED cacheVars
    /\ UNCHANGED <<server, rq, sent, ctxErr, prev>>

\* The shutdown goroutine past <-ctx.Done(): health goes NOT_SERVING,
\* GracefulStop is started in a goroutine of its own, and the select with
\* time.After(5 * time.Second) is entered
ShutdownStart ==
    /\ Running /\ main.gr = "waiting" /\ main.signal
    /\ main' = [main EXCEPT !.health = "NOT_SERVING", !.gr = "select",
                            !.grpc = "draining", !.timer = "running"]
    /\ UNCHANGED cacheVars
    /\ UNCHANGED <<server, rq, sent, ctxErr, prev>>

\* grpcServer.GracefulStop returns, no call being in progress any more, and
\* the stopped channel is closed
GracefulStopDone ==
    /\ Running /\ main.grpc = "draining" /\ ~InFlight
    /\ main' = [main EXCEPT !.grpc = "stopped", !.stopped = TRUE]
    /\ UNCHANGED cacheVars
    /\ UNCHANGED <<server, rq, sent, ctxErr, prev>>

\* The five seconds of time.After pass
TimerFires ==
    /\ Running /\ main.timer = "running"
    /\ main' = [main EXCEPT !.timer = "fired"]
    /\ UNCHANGED cacheVars
    /\ UNCHANGED <<server, rq, sent, ctxErr, prev>>

\* The select of the shutdown goroutine, case <-stopped
ShutdownStopped ==
    /\ Running /\ main.gr = "select" /\ main.stopped
    /\ main' = [main EXCEPT !.gr = "done"]
    /\ UNCHANGED cacheVars
    /\ UNCHANGED <<server, rq, sent, ctxErr, prev>>

\* The select of the shutdown goroutine, case <-time.After: grpcServer.Stop
\* closes the connections, which cancels the context of a call in progress
ForceStop ==
    /\ Running /\ main.gr = "select" /\ main.timer = "fired"
    /\ main' = [main EXCEPT !.gr = "done", !.grpc = "stopped"]
    /\ IF InFlight /\ ctxErr = ""
       THEN /\ ctxErr' = "context canceled"
            /\ rq' = [rq EXCEPT !.cancelledAt = <<[chunks |-> rq.sequence,
                                                   left |-> BytesLeft]>>]
       ELSE UNCHANGED <<rq, ctxErr>>
    /\ UNCHANGED cacheVars
    /\ UNCHANGED <<server, sent, prev>>

\* main, step 8: the select returns on <-ctx.Done() and main returns, which
\* ends the process with every goroutine and call in it
MainReturn ==
    /\ main.pc = "wait" /\ main.signal
    /\ main' = [main EXCEPT !.pc = "exited"]
    /\ UNCHANGED cacheVars
    /\ UNCHANGED <<server, rq, sent, ctxErr, prev>>

\* ------------------------------------------------------------- environment
\* A cache file is deleted behind the cache's back
ExternalRemove(name) ==
    /\ cache = "ready"
    /\ name \in Glob(files)
    /\ files' = Delete(files, name)
    /\ last' = [NoLast EXCEPT !.op = "env"]
    /\ UNCHANGED <<entries, maxBytes, cache, mu, now, pc, call, stored>>
    /\ UNCHANGED streamVars

\* The process ends and a new one starts over the same directory
Restart ==
    /\ cache \in {"ready", "nil"}
    /\ \A p \in Procs : pc[p] = "idle"
    /\ cache' = "new"
    /\ entries' = EmptyMap
    /\ stored' = EmptyMap
    /\ last' = NoLast
    /\ rq.pc \in {"idle", "done"}
    /\ server' = <<>>
    /\ rq' = NoRq
    /\ sent' = <<>>
    /\ ctxErr' = ""
    /\ prev' = <<>>
    /\ main' = MainStart
    /\ UNCHANGED <<files, maxBytes, mu, now, pc, call>>

\* ----------------------------------------------------------- specification
Init ==
    /\ files = [n \in {Foreign} |-> [data |-> <<>>, modTime |-> 0]]
    /\ entries = EmptyMap
    /\ maxBytes = 1
    /\ cache = "new"
    /\ mu = 0
    /\ now = 0
    /\ pc = [p \in Procs |-> "idle"]
    /\ call = [p \in Procs |-> NoCall]
    /\ last = NoLast
    /\ stored = EmptyMap
    /\ server = <<>>
    /\ rq = NoRq
    /\ sent = <<>>
    /\ ctxErr = ""
    /\ main = MainStart
    /\ prev = <<>>

\* One caller, and a directory and a disk that do not fail
Next ==
    \/ \E cap \in 1..MaxCap : New(cap, TRUE)
    \/ \E k \in Keys, d \in Data : PutOversized(1, k, d)
    \/ \E k \in Keys, d \in Data : Put(1, k, d, WriteOk(d))
    \/ \E k \in Keys : Get(1, k, TRUE)
    \/ Restart

Spec == Init /\ [][Next]_vars

\* One caller, over a directory and a disk that can fail: MkdirAll, WriteFile
\* and ReadFile may return errors, and cache files may vanish
FaultKeys == {<<"a">>, <<"b">>}
FaultData == Data
NextFaults ==
    \/ \E cap \in 1..MaxCap, mkdirOk \in BOOLEAN : New(cap, mkdirOk)
    \/ \E k \in FaultKeys, d \in FaultData : PutOversized(1, k, d)
    \/ \E k \in FaultKeys, d \in FaultData :
          \E o \in WriteOutcomes(d) : Put(1, k, d, o)
    \/ \E k \in FaultKeys, ok \in BOOLEAN : Get(1, k, ok)
    \/ \E n \in {PathOf(k) : k \in FaultKeys} : ExternalRemove(n)
    \/ Restart

SpecFaults == Init /\ [][NextFaults]_vars

\* Several goroutines calling Put and Get at once
ConcKeys == {NoKey, <<"a">>}
NextConc ==
    \/ \E cap \in 1..MaxCap : New(cap, TRUE)
    \/ \E p \in Procs, k \in ConcKeys, d \in Data : PutOversized(p, k, d)
    \/ \E p \in Procs, k \in ConcKeys, d \in Data : PutBegin(p, k, d)
    \/ \E p \in Procs : Evict(p)
    \/ \E p \in Procs : EvictDone(p)
    \/ \E p \in Procs : PutWrite(p, WriteOk(call[p].data))
    \/ \E p \in Procs, k \in ConcKeys : Get(p, k, TRUE)

SpecConc == Init /\ [][NextConc]_vars

\* The adapter serving StreamSynthesis calls, one at a time, over a
\* Synthesizer, a sink, a directory and a disk that can all fail
\* no audio, and 5000 bytes: one full chunk and a partial one of 904 bytes
Audios == {<<>>, Wave(chunkSize + 904)}
Texts == {<<>>, <<"a">>}
Metas == {EmptyMap, [k \in {"nupi.lang.iso1"} |-> StrPl]}
Languages == {StrClient, StrPl}
StreamCaps == {chunkSize, 2 * chunkSize}
NextStream ==
    \/ \E cap \in StreamCaps : New(cap, TRUE)
    \/ NoCache
    \/ \E language \in Languages : Activate(language)
    \/ \E text \in Texts, metadata \in Metas, sendOk \in BOOLEAN :
          Begin(text, metadata, sendOk)
    \/ \E readOk \in BOOLEAN : CacheLookup(readOk)
    \/ \E ok \in BOOLEAN, audio \in Audios, sendOk \in BOOLEAN :
          Synthesize(ok, audio, sendOk)
    \/ \E sendOk \in BOOLEAN : SendPlaying(sendOk)
    \/ \E n \in ReadSizes(rq.body) \cup {0}, err \in {"", "EOF", "error"},
         sendOk \in BOOLEAN :
          LoopStep(n, err, sendOk)
    \/ \E sendOk \in BOOLEAN : SendReadError(sendOk)
    \/ \E outcome \in {o \in WriteOutcomes(rq.accumulated) : o.ok \/ ~o.touched} :
          Store(outcome)
    \/ \E sendOk \in BOOLEAN : Finish(sendOk)
    \/ \E sendOk \in BOOLEAN : ReplayPlaying(sendOk)
    \/ \E sendOk \in BOOLEAN : ReplayChunk(sendOk)
    \/ \E sendOk \in BOOLEAN : ReplayFinish(sendOk)
    \/ \E reason \in CtxErrors : Cancel(reason)

SpecStream == Init /\ [][NextStream]_vars

\* The adapter serving StreamSynthesis calls, one at a time, over a sink, a
\* directory and a disk that do not fail
NextServe ==
    \/ \E cap \in StreamCaps : New(cap, TRUE)
    \/ NoCache
    \/ \E language \in Languages : Activate(language)
    \/ \E text \in Texts, metadata \in Metas : BeginAfter(text, metadata, TRUE)
    \/ CacheLookup(TRUE)
    \/ \E ok \in BOOLEAN, audio \in Audios : Synthesize(ok, audio, TRUE)
    \/ SendPlaying(TRUE)
    \/ \E n \in ReadSizes(rq.body) \cup {0}, err \in {"", "EOF", "error"} :
          LoopStep(n, err, TRUE)
    \/ SendReadError(TRUE)
    \/ Store(WriteOk(rq.accumulated))
    \/ Finish(TRUE)
    \/ ReplayPlaying(TRUE)
    \/ ReplayChunk(TRUE)
    \/ ReplayFinish(TRUE)
    \/ \E reason \in CtxErrors : Cancel(reason)

SpecServe == Init /\ [][NextServe]_vars

\* The adapter serving StreamSynthesis calls, one at a time, over a sink that
\* takes every message and a Synthesizer whose stream may have no end.  The
\* goroutine of a call keeps running: Serve is weakly fair.  Calls and
\* cancellations come when the client likes.
Serve ==
    \/ CacheLookup(TRUE)
    \/ \E ok \in BOOLEAN, audio \in Audios : Synthesize(ok, audio, TRUE)
    \/ SynthesizeEndless
    \/ SendPlaying(TRUE)
    \/ \E n \in ReadSizes(rq.body) \cup {0}, err \in {"", "EOF", "error"} :
          LoopStep(n, err, TRUE)
    \/ EndlessRead(TRUE)
    \/ SendReadError(TRUE)
    \/ Store(WriteOk(rq.accumulated))
    \/ Finish(TRUE)
    \/ ReplayPlaying(TRUE)
    \/ ReplayChunk(TRUE)
    \/ ReplayFinish(TRUE)
NextLive ==
    \/ \E cap \in StreamCaps : New(cap, TRUE)
    \/ NoCache
    \/ \E language \in Languages : Activate(language)
    \/ \E text \in Texts, metadata \in Metas : Begin(text, metadata, TRUE)
    \/ \E reason \in CtxErrors : Cancel(reason)
    \/ Serve

SpecLive == Init /\ [][NextLive]_vars /\ WF_vars(Serve)

\* The adapter resolving the language of its requests: every mode, every
\* hint, over a Synthesizer that is down, so that the cache stays empty
StrDe == <<"d", "e">>
LangModes == {StrClient, StrAuto, StrPl, StrDe}
Hints == {<<>>, <<" ">>, <<" ", "\t">>, StrPl, <<" ", "p", "l", "\t">>,
          <<"\t", "d", "e">>, StrAuto, <<"p", " ", "l">>}
LangMetas == {EmptyMap} \cup {[k \in {"nupi.lang.iso1"} |-> h] : h \in Hints}
NextLang ==
    \/ \E cap \in StreamCaps : New(cap, TRUE)
    \/ NoCache
    \/ \E language \in LangModes : Activate(language)
    \/ \E text \in Texts, metadata \in LangMetas : BeginNoting(text, metadata, TRUE)
    \/ CacheLookup(TRUE)
    \/ \E sendOk \in BOOLEAN : Synthesize(FALSE, <<>>, sendOk)
    \/ Restart

SpecLang == Init /\ [][NextLang]_vars

\* cache.Key called on its own, as the tests call it; prev keeps the
\* arguments and the result of the two most recent calls, newest first
KeyCall(text, model, voiceID, languageCode, stability, similarityBoost, optimizeLatency) ==
    /\ prev' = <<[text |-> text, model |-> model, voiceID |-> voiceID,
                  languageCode |-> languageCode, stability |-> stability,
                  similarityBoost |-> similarityBoost,
                  optimizeLatency |-> optimizeLatency,
                  key |-> Key(text, model, voiceID, languageCode, stability,
                              similarityBoost, optimizeLatency)]>>
               \o SubSeq(prev, 1, Min(1, Len(prev)))
    /\ UNCHANGED cacheVars
    /\ UNCHANGED <<server, rq, sent, ctxErr, main>>

\* The arguments: texts and language codes are what a client sends, one of
\* each with lines of its own; a pointer is nil or points to zero
LineModel == <<NL, "m", "o", "d", "e", "l", "=">> \o CfgModel
LineVoice == <<NL, "v", "o", "i", "c", "e", "=">> \o CfgVoiceID
LineLang == <<NL, "l", "a", "n", "g", "=">>
KeyTexts == {<<"a">>, <<"a">> \o LineModel \o LineVoice \o LineLang \o StrPl}
KeyModels == {CfgModel, <<"n">>}
KeyVoices == {CfgVoiceID}
KeyLangs == {StrDe, StrPl \o LineModel \o LineVoice \o LineLang \o StrDe}
KeyFloats == {Nil, <<0>>}
KeyInts == {Nil, <<0>>}
NextKey ==
    \E text \in KeyTexts, model \in KeyModels, voiceID \in KeyVoices,
       languageCode \in KeyLangs, stability \in KeyFloats,
       similarityBoost \in KeyFloats, optimizeLatency \in KeyInts :
        KeyCall(text, model, voiceID, languageCode, stability, similarityBoost,
                optimizeLatency)

SpecKey == Init /\ [][NextKey]_vars

\* One StreamSynthesis call at a time, its Put one step at a time, while
\* another goroutine calls Put and Get on the same cache, for the same key
\* and for another
SharedKey == Key(<<"a">>, CfgModel, CfgVoiceID, StrPl, Nil, Nil, Nil)
SharedKeys == {SharedKey, Key(<<"b">>, CfgModel, CfgVoiceID, StrPl, Nil, Nil, Nil)}
SharedData == Wave(chunkSize)
NextShared ==
    \/ \E cap \in StreamCaps : New(cap, TRUE)
    \/ Activate(StrPl)
    \/ Begin(<<"a">>, EmptyMap, TRUE)
    \/ CacheLookup(TRUE)
    \/ \E ok \in BOOLEAN : Synthesize(ok, Wave(chunkSize + 904), TRUE)
    \/ SendPlaying(TRUE)
    \/ \E n \in ReadSizes(rq.body) \cup {0}, err \in {"", "EOF"} : LoopStep(n, err, TRUE)
    \/ StoreStart
    \/ StoreOther
    \/ StoreEnd
    \/ Finish(TRUE)
    \/ ReplayPlaying(TRUE)
    \/ ReplayChunk(TRUE)
    \/ ReplayFinish(TRUE)
    \/ \E p \in Procs : Evict(p)
    \/ \E p \in Procs : EvictDone(p)
    \/ \E p \in Procs : PutWrite(p, WriteOk(call[p].data))
    \/ \E k \in SharedKeys : PutBegin(2, k, SharedData)
    \/ \E k \in SharedKeys : Get(2, k, TRUE)

SpecShared == Init /\ [][NextShared]_vars

\* One goroutine in New and Put with the eviction loop taken a turn at a
\* time, over directories earlier processes have filled; the goroutine that
\* is in the loop keeps running
NextEvict ==
    \/ \E cap \in 1..MaxCap : NewBegin(1, cap)
    \/ NewEnd(1)
    \/ \E k \in Keys, d \in Data : PutOversized(1, k, d)
    \/ \E k \in Keys, d \in Data : PutBegin(1, k, d)
    \/ Evict(1)
    \/ EvictDone(1)
    \/ PutWrite(1, WriteOk(call[1].data))
    \/ Restart

SpecEvict == Init /\ [][NextEvict]_vars /\ WF_vars(Evict(1) \/ EvictDone(1))

\* Two calls of StreamSynthesis in flight at once, each in its own goroutine
\* with its own locals, for the same text and language, over a sink, a
\* Synthesizer and a disk that do not fail.  rq and sent are the frame and the
\* sink of the call taking the current step; prev holds those of the other.
NoFrame == [rq |-> NoRq, sent |-> <<>>]
Other == IF prev = <<>> THEN NoFrame ELSE prev[1]
Frames == {[rq |-> rq, sent |-> sent], Other}

\* a scheduler that hands the sequence counter of one call on to the other
SwitchSharingSequence ==
    /\ server # <<>>
    /\ rq' = [Other.rq EXCEPT !.sequence = rq.sequence]
    /\ sent' = Other.sent
    /\ prev' = <<[rq |-> rq, sent |-> sent]>>
    /\ UNCHANGED cacheVars
    /\ UNCHANGED <<server, ctxErr, main>>

\* The other goroutine takes the next step
Switch ==
    /\ server # <<>>
    /\ rq' = Other.rq
    /\ sent' = Other.sent
    /\ prev' = <<[rq |-> rq, sent |-> sent]>>
    /\ UNCHANGED cacheVars
    /\ UNCHANGED <<server, ctxErr, main>>

TwinText == <<"a">>
TwinAudios == {<<>>, Wave(904), Wave(chunkSize + 904)}
NextTwin ==
    \/ \E cap \in StreamCaps : New(cap, TRUE)
    \/ Activate(StrPl)
    \/ rq.pc = "idle" /\ Begin(TwinText, EmptyMap, TRUE)
    \/ CacheLookup(TRUE)
    \/ \E audio \in TwinAudios : Synthesize(TRUE, audio, TRUE)
    \/ SendPlaying(TRUE)
    \/ \E n \in ReadSizes(rq.body), err \in {"", "EOF"} : LoopStep(n, err, TRUE)
    \/ Store(WriteOk(rq.accumulated))
    \/ Finish(TRUE)
    \/ ReplayPlaying(TRUE)
    \/ ReplayChunk(TRUE)
    \/ ReplayFinish(TRUE)
    \/ Switch

SpecTwin == Init /\ [][NextTwin]_vars

\* The process from step 4 of main to its exit: the cache and the Server are
\* set up while calls already arrive, calls are served one at a time, and a
\* signal may come at any moment
NextMain ==
    \/ Running /\ \E cap \in StreamCaps : New(cap, TRUE)
    \/ Running /\ NoCache
    \/ Running /\ Activate(StrPl)
    \/ SetServing
    \/ Running /\ main.grpc = "serving" /\ \E text \in Texts : BeginUnavailable(text)
    \/ Running /\ main.grpc = "serving" /\ \E text \in Texts : Begin(text, EmptyMap, TRUE)
    \/ Running /\ CacheLookup(TRUE)
    \/ Running /\ \E audio \in Audios : Synthesize(TRUE, audio, TRUE)
    \/ Running /\ SendPlaying(TRUE)
    \/ Running /\ \E n \in ReadSizes(rq.body), err \in {"", "EOF"} : LoopStep(n, err, TRUE)
    \/ Running /\ Store(WriteOk(rq.accumulated))
    \/ Running /\ Finish(TRUE)
    \/ Running /\ ReplayPlaying(TRUE)
    \/ Running /\ ReplayChunk(TRUE)
    \/ Running /\ ReplayFinish(TRUE)
    \/ Signal
    \/ ShutdownStart
    \/ GracefulStopDone
    \/ TimerFires
    \/ ShutdownStopped
    \/ ForceStop
    \/ MainReturn

SpecMain == Init /\ [][NextMain]_vars

\* ------------------------------------------------------------------ claims
Range(q) == {q[i] : i \in 1..Len(q)}

\* The index at the moment of the i-th removal of an eviction that started
\* from index e0 and removed the keys of log in order
RECURSIVE IndexAt(_, _, _)
IndexAt(e0, log, i) ==
    IF i <= 1 THEN e0 ELSE Delete(IndexAt(e0, log, i - 1), log[i - 1])

\* A step that completes a Put that was not turned away as oversized
IsPutStep == cache = "ready" /\ last'.op = "Put" /\ ~last'.oversized
\* A step that completes a New that returned a cache
IsNewStep == cache = "new" /\ last'.op = "New" /\ ~last'.err
\* A step that completes a Get
IsGetStep == cache = "ready" /\ last'.op = "Get"

\* The index an eviction starts from, and what it has to make room for
EvictStart == IF IsNewStep THEN loadFiles(files) ELSE Delete(entries, last'.key)
EvictNeeded == IF IsNewStep THEN 0 ELSE last'.size

\* C1: whenever New or a Put has returned, the sizes of the index entries add
\* up to at most maxBytes.
C1_Capacity == cache = "ready" => totalSize(entries) <= maxBytes

\* C2: every entry an eviction removes has, at the moment it is removed, the
\* least accessedAt of the index, and is removed only while the total plus
\* the needed size exceeds maxBytes.
C2_LruVictim ==
    [][(IsPutStep \/ IsNewStep) =>
        \A i \in 1..Len(last'.evicted) :
            LET idx == IndexAt(EvictStart, last'.evicted, i)
                v == last'.evicted[i]
            IN /\ v \in DOMAIN idx
               /\ \A j \in DOMAIN idx : idx[j].accessedAt >= idx[v].accessedAt
               /\ totalSize(idx) + EvictNeeded > maxBytes'
               /\ v \notin DOMAIN entries' \/ v = last'.key]_vars

\* C2 witness: a Put has evicted two entries of different age, oldest first
C2_Witness ==
    /\ last.op = "Put" /\ Len(last.evicted) = 2
    /\ last.evicted[1] # last.evicted[2]
    /\ DOMAIN entries = {last.key}

\* C3: when the Put that follows a Get hit on k evicts k, every entry whose
\* accessedAt was earlier than the time of that Get has been removed before
\* k: evicted earlier in the same loop, or replaced by this Put.
C3_GetProtects ==
    [][(IsPutStep /\ last.op = "Get" /\ last.hit
        /\ last.key \in Range(last'.evicted)) =>
        \A j \in DOMAIN entries :
            entries[j].accessedAt < now =>
                \/ j = last'.key
                \/ \E a, b \in 1..Len(last'.evicted) :
                      /\ a < b
                      /\ last'.evicted[a] = j
                      /\ last'.evicted[b] = last.key]_vars

\* C3 witness: the Put right after a Get hit on k evicted an older entry
\* first and k after it
C3_Witness ==
    /\ last.op = "Put" /\ last.prevGet # <<>> /\ Len(last.evicted) = 2
    /\ last.evicted[2] = last.prevGet[1]
    /\ last.evicted[1] # last.prevGet[1]

\* C4 as stated: a Put of more than maxBytes returns nil and changes neither
\* index nor files, and a Get of that key right after it is a miss.
C4_OversizedThenMiss ==
    [][/\ (cache = "ready" /\ last'.op = "Put" /\ last'.size > maxBytes) =>
            (~last'.err /\ entries' = entries /\ files' = files)
       /\ (IsGetStep /\ last.op = "Put" /\ last.size > maxBytes
            /\ last'.key = last.key) => ~last'.hit]_vars

\* C4 amended: a Put of more than maxBytes returns nil and changes neither
\* index nor files; a Get of that key right after it is a miss exactly when
\* the key was not cached before the Put, and otherwise returns the bytes
\* cached before.
C4_OversizedNoOp ==
    [][/\ (cache = "ready" /\ last'.op = "Put" /\ last'.size > maxBytes) =>
            (~last'.err /\ entries' = entries /\ files' = files)
       /\ (IsGetStep /\ last.op = "Put" /\ last.size > maxBytes
            /\ last'.key = last.key) =>
            /\ last'.hit <=> last.indexed
            /\ last'.hit => last'.data = stored[last.key]]_vars

\* C4 witness: an oversized Put of a key that was not cached has returned
C4_Witness ==
    /\ last.op = "Put" /\ last.oversized /\ last.size > maxBytes
    /\ ~last.indexed /\ ~last.err /\ entries # EmptyMap

\* C5 as stated: a Put whose WriteFile fails returns an error and leaves the
\* index as it was before the call.
C5_FailedPutKeepsIndex ==
    [][(IsPutStep /\ last'.err) => entries' = entries]_vars

\* C5 amended: a Put whose WriteFile fails returns an error and adds no
\* entry: the index is left as it was before the call less the entry key
\* had and less the entries evicted to make room, the others untouched.
C5_FailedPutAddsNothing ==
    [][(IsPutStep /\ last'.err) =>
        /\ last'.key \notin DOMAIN entries'
        /\ entries' = [j \in DOMAIN entries \ ({last'.key} \cup Range(last'.evicted))
                         |-> entries[j]]
        /\ Range(last'.evicted) \subseteq DOMAIN entries]_vars

\* C5 witness: a Put failed at the write after it had removed the entry key
\* had and evicted another
C5_Witness ==
    /\ last.op = "Put" /\ last.err /\ last.indexed /\ last.evicted # <<>>

\* C6: a Get that misses leaves no entry for its key and touches no other
\* entry; a Get of an indexed key whose file is gone misses; and a second
\* Get of the key misses again.
C6_SelfHealing ==
    [][IsGetStep =>
        /\ ~last'.hit => entries' = Delete(entries, last'.key)
        /\ (last'.key \in DOMAIN entries
            /\ entries[last'.key].path \notin DOMAIN files) => ~last'.hit
        /\ (last.op = "Get" /\ ~last.hit /\ last.key = last'.key) => ~last'.hit]_vars

\* C6 witness: a Get missed on a key that was in the index, and the entry
\* is gone
C6_Witness ==
    /\ last.op = "Get" /\ ~last.hit /\ last.indexed
    /\ last.key \notin DOMAIN entries /\ entries # EmptyMap

\* C7: a Get of a key that is cached (stored by a Put or found by New, and
\* not evicted or replaced since) is a hit and returns exactly the bytes
\* stored; a Get of any other key is a miss.
C7_RoundTrip ==
    [][IsGetStep =>
        /\ last'.hit <=> last'.key \in DOMAIN stored
        /\ last'.hit => last'.data = stored[last'.key]]_vars

\* C7 witness: a Get has returned the two bytes a Put stored
C7_Witness ==
    /\ last.op = "Get" /\ last.hit /\ last.data = Fill(1, 2)

\* C8: when New returns, every *.pcm file of the directory is indexed with
\* its size and modification time, and the total fits maxBytes.
C8_Reload ==
    (cache = "ready" /\ last.op = "New") =>
        /\ \A n \in Glob(files) :
              /\ KeyOf(n) \in DOMAIN entries
              /\ entries[KeyOf(n)].size = Len(files[n].data)
              /\ entries[KeyOf(n)].accessedAt = files[n].modTime
        /\ totalSize(entries) <= maxBytes

\* No call is in flight
C9_Quiescent == cache = "ready" /\ mu = 0 /\ \A p \in Procs : pc[p] = "idle"
\* Whenever no call is in flight, every entry has the size and its file the
\* bytes of the data most recently stored under its key
C9_OnePutPerKey ==
    C9_Quiescent =>
        \A k \in DOMAIN entries :
            /\ k \in DOMAIN stored
            /\ entries[k].size = Len(stored[k])
            /\ entries[k].path \in DOMAIN files
            /\ files[entries[k].path].data = stored[k]

\* C9: under concurrent Puts and Gets, whenever no call is in flight the
\* index holds for each key the size, and the file the bytes, of one Put, and
\* the sizes add up to at most maxBytes.
C9_Atomic == C9_OnePutPerKey /\ (C9_Quiescent => totalSize(entries) <= maxBytes)

\* The statuses that end a stream
Terminal == {"FINISHED", "ERROR", "INTERRUPTED"}
\* A StreamSynthesis call for a non-empty text has returned
Completed == rq.pc = "done" /\ rq.text # <<>>
\* The messages start with STARTED, end with one terminal status, and have
\* PLAYING everywhere between
WellFormed(q) ==
    /\ Len(q) >= 2
    /\ q[1].status = "STARTED"
    /\ q[Len(q)].status \in Terminal
    /\ \A i \in 2..(Len(q) - 1) : q[i].status = "PLAYING"
\* No message follows a terminal one
NothingAfterTerminal(q) == \A i \in 1..(Len(q) - 1) : q[i].status \notin Terminal

\* C10 as stated: the messages of every completed request for a non-empty
\* text are STARTED, then PLAYING messages, then exactly one of FINISHED,
\* ERROR and INTERRUPTED, and nothing after it.
C10_StatusSequence ==
    /\ NothingAfterTerminal(sent)
    /\ Completed => WellFormed(sent)

\* C10 amended: the same, for the completed requests in which no Send failed.
C10_StatusSequenceIfSent ==
    /\ NothingAfterTerminal(sent)
    /\ (Completed /\ ~rq.sendFailed) => WellFormed(sent)

\* C10 witness: a request has completed with STARTED, PLAYING, two chunks
\* and FINISHED
C10_Witness ==
    /\ Completed /\ ~rq.sendFailed
    /\ Len(sent) = 5 /\ sent[5].status = "FINISHED"
    /\ sent[3].chunk # <<>> /\ sent[4].chunk # <<>>

\* The statuses of the messages of q, in order
Statuses(q) == [i \in 1..Len(q) |-> q[i].status]

\* C11: a request with an empty text calls Send once, with an ERROR message
\* that has a reason and no chunk, sends no STARTED, does not call the cache
\* or the Synthesizer, and returns an error.
C11_EmptyText ==
    (rq.pc = "done" /\ rq.text = <<>>) =>
        /\ rq.sends = 1 /\ rq.gets = 0 /\ rq.synthCalls = 0 /\ rq.puts = 0
        /\ rq.ret \in {"error", "send"}
        /\ IF rq.sendFailed
           THEN sent = <<>>
           ELSE /\ Statuses(sent) = <<"ERROR">>
                /\ sent[1].errorMessage # ""
                /\ sent[1].chunk = <<>>

\* C11 witness: over a cache that holds an entry, a request with an empty
\* text has returned after its ERROR
C11_Witness ==
    /\ rq.pc = "done" /\ rq.text = <<>> /\ Statuses(sent) = <<"ERROR">>
    /\ cache = "ready" /\ entries # EmptyMap

\* C12: the status-only PLAYING is sent before the Synthesizer is invoked,
\* so every request that sent STARTED and reached its terminal status has
\* sent a PLAYING before it.
C12_PlayingBeforeSynth ==
    /\ rq.synthCalls > 0 => "PLAYING" \in Range(Statuses(sent))
    /\ (rq.pc = "done" /\ ~rq.sendFailed /\ sent # <<>>
        /\ sent[1].status = "STARTED") =>
            \E i \in 1..(Len(sent) - 1) : sent[i].status = "PLAYING"

\* C13: a request whose cache lookup hits never invokes the Synthesizer or
\* reads a stream; what it has emitted is at any moment a prefix of the
\* cached bytes, and when it ends FINISHED it has emitted exactly the cached
\* bytes and its FINISHED carries source=cache.
C13_CacheHit ==
    rq.hit =>
        /\ rq.synthCalls = 0 /\ rq.reads = 0 /\ rq.puts = 0
        /\ rq.key \in DOMAIN stored
        /\ Len(Payload(sent)) <= Len(stored[rq.key])
        /\ Payload(sent) = SubSeq(stored[rq.key], 1, Len(Payload(sent)))
        /\ Finished =>
              /\ Payload(sent) = stored[rq.key]
              /\ "source" \in DOMAIN sent[Len(sent)].metadata
              /\ sent[Len(sent)].metadata.source = "cache"

\* C13 witness: a request served from the cache has ended FINISHED after
\* two chunks
C13_Witness ==
    /\ rq.hit /\ Finished /\ Len(Chunks(sent)) = 2
    /\ Payload(sent) = Wave(chunkSize + 904)

\* C14: a request that misses the cache (or has none) and ends FINISHED has
\* invoked the Synthesizer once and its FINISHED has no source tag; and when
\* the call before this one missed, ended FINISHED and streamed bytes, not
\* none and not more than maxBytes, for the same text and language, this
\* one hits the cache, invokes no Synthesizer, and, if it ends FINISHED, has
\* streamed the same bytes.
C14_MissPopulates ==
    /\ (Finished /\ ~rq.hit) =>
          /\ rq.synthCalls = 1
          /\ "source" \notin DOMAIN sent[Len(sent)].metadata
    /\ (/\ prev # <<>> /\ rq.gets = 1
        /\ prev[1].payload # <<>> /\ Len(prev[1].payload) <= maxBytes
        /\ rq.text = prev[1].text /\ rq.lang = prev[1].lang) =>
          /\ rq.hit /\ rq.synthCalls = 0
          /\ Finished => Payload(sent) = prev[1].payload

\* C14 witness: the same request has been made twice; the first missed and
\* streamed from the Synthesizer, the second has replayed the same bytes
C14_Witness ==
    /\ prev # <<>> /\ prev[1].payload # <<>>
    /\ rq.text = prev[1].text /\ rq.lang = prev[1].lang
    /\ rq.hit /\ Finished /\ Payload(sent) = prev[1].payload

\* C15: in a stream that ended FINISHED the chunk payloads, in order, are the
\* audio (what the Synthesizer returned, or what the cache held), there are
\* ceil(N / chunkSize) chunks, and every chunk but the final one has exactly
\* chunkSize bytes.
C15_Chunking ==
    Finished =>
        LET c == Chunks(sent)
            n == Len(Payload(sent))
        IN /\ ~rq.hit => Payload(sent) = rq.audio
           /\ rq.hit => Payload(sent) = stored[rq.key]
           /\ Len(c) = (n + chunkSize - 1) \div chunkSize
           /\ \A i \in 1..(Len(c) - 1) : Len(c[i].chunk[1].data) = chunkSize

\* C16: in a stream that ended FINISHED with at least one chunk, exactly one
\* chunk has last = TRUE and it is the final chunk.
C16_LastFlag ==
    (Finished /\ Chunks(sent) # <<>>) =>
        LET c == Chunks(sent)
        IN \A i \in 1..Len(c) : c[i].chunk[1].last = (i = Len(c))

InReplayLoop == rq.pc = "replay" /\ rq.offset < Len(rq.data)

\* C18: on the replay path a chunk is sent only while the context is not
\* done; the turn of the loop that finds it done sends no chunk, sends
\* INTERRUPTED with the context's error as reason (or fails to send) and
\* ends the call; and a replay that sent INTERRUPTED sent it once, as its
\* final message, with no FINISHED.
C18_ReplayCancel ==
    /\ [](rq.hit =>
            \A i \in 1..Len(sent) :
                sent[i].status = "INTERRUPTED" =>
                    /\ i = Len(sent) /\ rq.pc = "done"
                    /\ sent[i].chunk = <<>>
                    /\ sent[i].metadata = [reason |-> ctxErr]
                    /\ ctxErr \in CtxErrors)
    /\ [][/\ (rq.hit /\ Len(Chunks(sent')) > Len(Chunks(sent))) => ctxErr = ""
          /\ (InReplayLoop /\ ctxErr # "" /\ rq' # rq) =>
                /\ rq'.pc = "done"
                /\ \/ sent' = sent
                   \/ sent' = Append(sent, StatusMsg("INTERRUPTED",
                                                     [reason |-> ctxErr]))]_vars

\* C18 witness: a replay cancelled after its first chunk, with bytes left,
\* has ended with INTERRUPTED
C18_Witness ==
    /\ rq.hit /\ rq.pc = "done"
    /\ Len(Chunks(sent)) = 1
    /\ Len(Payload(sent)) < Len(stored[rq.key])
    /\ sent[Len(sent)].status = "INTERRUPTED"
    /\ sent[Len(sent)].metadata = [reason |-> "context deadline exceeded"]

\* The call in progress missed the cache (or has none) and has the
\* Synthesizer's stream open
InLiveLoop == rq.pc = "loop"

\* C19: on the live path the turn of the read loop that finds the context
\* done reads nothing, sends no chunk, sends INTERRUPTED with the context's
\* error as reason (or fails to send) and ends the call; no step of a live
\* call before its Put changes the cache, and a live call that sent
\* INTERRUPTED sent it as its final message and has called Put not once.
C19_LiveCancel ==
    /\ [](~rq.hit =>
            \A i \in 1..Len(sent) :
                sent[i].status = "INTERRUPTED" =>
                    /\ i = Len(sent) /\ rq.pc = "done"
                    /\ sent[i].metadata = [reason |-> ctxErr]
                    /\ rq.puts = 0)
    /\ [][/\ (InLiveLoop /\ ctxErr # "" /\ rq' # rq) =>
                /\ rq'.pc = "done"
                /\ rq'.reads = rq.reads /\ rq'.puts = 0
                /\ \/ sent' = sent
                   \/ sent' = Append(sent, StatusMsg("INTERRUPTED",
                                                     [reason |-> ctxErr]))
          /\ (rq.pc \in {"synth", "playing", "loop", "readErr"} /\ rq' # rq) =>
                UNCHANGED cacheVars]_vars

\* C19 witness: a live call over a cache, cancelled after its first chunk
\* with bytes still to read, has ended with INTERRUPTED and cached nothing
C19_Witness ==
    /\ ~rq.hit /\ rq.gets = 1 /\ rq.pc = "done" /\ cache = "ready"
    /\ Len(Chunks(sent)) = 1
    /\ Len(Payload(sent)) < Len(rq.audio)
    /\ sent[Len(sent)].status = "INTERRUPTED"
    /\ rq.puts = 0
    /\ rq.key \notin DOMAIN entries

\* The terminal status streamFromBytes gives a call whose context became done
\* when `left` bytes of the audio were still to be sent: its loop looks at the
\* context only while bytes are left
ReplayTerminal(left) == IF left > 0 THEN "INTERRUPTED" ELSE "FINISHED"

\* The call in progress was cancelled after at least one of its chunks had
\* been sent
CancelledAfterChunk == rq.cancelledAt # <<>> /\ rq.cancelledAt[1].chunks >= 1

\* C20: a call cancelled after some of its chunks were sent, with `left`
\* bytes of its audio still to send, that ended with FINISHED or INTERRUPTED
\* ended with the same one on the live path as on the replay path; in
\* particular FINISHED on both when all the audio had been sent.
C20_SameTerminal ==
    (/\ rq.pc = "done" /\ ~rq.sendFailed /\ CancelledAfterChunk
     /\ sent[Len(sent)].status \in {"FINISHED", "INTERRUPTED"}) =>
        sent[Len(sent)].status = ReplayTerminal(rq.cancelledAt[1].left)

\* C21: once SynthesizeStream has failed the call is over: it has returned
\* an error, it has read nothing, sent no chunk and called Put not once,
\* and the message after STARTED is an ERROR with the wrapped reason and no
\* chunk, unless the Send of that ERROR failed and nothing follows STARTED.
C21_UpstreamFailure ==
    rq.synthErr =>
        /\ rq.pc = "done" /\ rq.ret \in {"error", "send"}
        /\ rq.synthCalls = 1 /\ rq.reads = 0 /\ rq.puts = 0
        /\ Chunks(sent) = <<>>
        /\ IF rq.sendFailed
           THEN Statuses(sent) = <<"STARTED">> /\ rq.ret = "send"
           ELSE /\ Statuses(sent) = <<"STARTED", "ERROR">>
                /\ sent[2].errorMessage = "synthesis failed: upstream"
                /\ sent[2].chunk = <<>>
                /\ rq.ret = "error"

\* C21 witness: over a ready cache a request that missed has ended with the
\* ERROR of a failed SynthesizeStream
C21_Witness ==
    /\ rq.synthErr /\ rq.pc = "done" /\ ~rq.sendFailed
    /\ cache = "ready" /\ rq.gets = 1
    /\ Statuses(sent) = <<"STARTED", "ERROR">>

\* The metadata of the FINISHED of a live stream, from what was streamed
LiveMetadata ==
    [total_bytes |-> Itoa(Len(Payload(sent))),
     total_chunks |-> Itoa(Len(Chunks(sent))),
     duration_sec |-> "%.2f",
     text_length |-> Itoa(Len(rq.text))]

\* C22: a call whose Put failed goes on to its FINISHED; when it is over and
\* the Send of the FINISHED did not fail, it has returned success and its
\* final message is FINISHED; and the FINISHED of every live stream carries
\* the metadata of what was streamed, whether its Put failed or not.
C22_PutFailureKeepsFinished ==
    /\ rq.putErr =>
          /\ rq.pc \in {"finish", "done"}
          /\ rq.puts = 1
          /\ rq.pc = "done" =>
                IF rq.sendFailed
                THEN rq.ret = "send" /\ Terminal \cap Range(Statuses(sent)) = {}
                ELSE Finished /\ rq.ret = "ok"
    /\ (Finished /\ ~rq.hit) => sent[Len(sent)].metadata = LiveMetadata

\* C22 witness: a call whose Put failed has ended with FINISHED and success,
\* and the cache has no entry for its key
C22_Witness ==
    /\ rq.putErr /\ Finished /\ rq.ret = "ok"
    /\ Payload(sent) = Wave(chunkSize + 904)
    /\ rq.key \notin DOMAIN entries

\* A Send of the call failed: the call has called Send more often than the
\* sink has taken a message
SendHasFailed == rq.sends > Len(sent)

\* C23: a call in which a Send failed is over, with that one failed Send as
\* the last thing it did: it has returned the transport's error and the
\* sink has no terminal message, no ERROR either; the step in which the Send
\* failed left the cache alone, did no Put and no read but the one whose
\* chunk it was sending;
\* and nothing more is sent, read or stored for a call that has so ended.
C23_SendFailure ==
    /\ [](SendHasFailed =>
            /\ rq.pc = "done" /\ rq.sendFailed /\ rq.ret = "send"
            /\ rq.sends = Len(sent) + 1
            /\ Terminal \cap Range(Statuses(sent)) = {})
    /\ [][/\ (~SendHasFailed /\ SendHasFailed' /\ rq.pc \notin {"idle", "done"}) =>
                /\ sent' = sent
                /\ rq'.puts = rq.puts /\ rq'.synthCalls <= rq.synthCalls + 1
                /\ rq'.reads = IF rq.pc = "loop" /\ ctxErr = ""
                               THEN rq.reads + 1 ELSE rq.reads
                /\ UNCHANGED cacheVars
          /\ (SendHasFailed /\ rq.pc = "done" /\ <<rq, sent>>' # <<rq, sent>>) =>
                /\ rq'.reads = 0 /\ rq'.puts = 0 /\ rq'.synthCalls = 0
                /\ rq'.sends <= 1 /\ Len(sent') <= 1
                /\ ctxErr' = ""]_vars

\* C23 witness: the Send of the second chunk of a live call over a cache has
\* failed; the call has returned after one chunk and two reads, without a
\* Put
C23_Witness ==
    /\ SendHasFailed /\ ~rq.hit /\ cache = "ready"
    /\ Len(Chunks(sent)) = 1 /\ rq.reads = 2
    /\ sent[Len(sent)].chunk # <<>>
    /\ rq.puts = 0 /\ rq.key \notin DOMAIN entries

\* str is white space from end to end (the empty string too)
Blank(str) == \A i \in 1..Len(str) : IsSpace(str[i])

\* r is str without the white space around it: str is white space, r, white
\* space, and r neither starts nor ends with white space
IsTrimOf(r, str) ==
    /\ r # <<>> /\ ~IsSpace(r[1]) /\ ~IsSpace(r[Len(r)])
    /\ \E i \in 1..Len(str) :
          /\ i + Len(r) - 1 <= Len(str)
          /\ SubSeq(str, i, i + Len(r) - 1) = r
          /\ Blank(SubSeq(str, 1, i - 1))
          /\ Blank(SubSeq(str, i + Len(r), Len(str)))

\* C24: the resolved language of every call that got past its validation:
\* under mode "client" the hint of the request without the white space around
\* it, or "auto" when the hint is absent, empty or all white space; under
\* mode "auto", "auto" whatever the hint; under any other mode, the mode
\* itself whatever the hint.
C24_ResolveLanguage ==
    (prev # <<>> /\ rq.pc # "idle" /\ rq.text # <<>>) =>
        LET mode == server[1].Language
            md == prev[1].metadata
            absent == "nupi.lang.iso1" \notin DOMAIN md
        IN /\ (mode = StrClient /\ ~absent /\ ~Blank(md["nupi.lang.iso1"])) =>
                 IsTrimOf(rq.lang, md["nupi.lang.iso1"])
           /\ (mode = StrClient /\ (absent \/ Blank(md["nupi.lang.iso1"]))) =>
                 rq.lang = StrAuto
           /\ mode = StrAuto => rq.lang = StrAuto
           /\ mode \notin {StrClient, StrAuto} => rq.lang = mode

\* C24 witness: under mode "client" a request whose hint is " pl" and a tab
\* has resolved to "pl"
C24_Witness ==
    /\ prev # <<>> /\ rq.pc = "synth" /\ server[1].Language = StrClient
    /\ prev[1].metadata = [k \in {"nupi.lang.iso1"} |-> <<" ", "p", "l", "\t">>]
    /\ rq.lang = StrPl

\* part occurs in str
Occurs(part, str) ==
    \E i \in 1..(Len(str) - Len(part) + 1) : SubSeq(str, i, i + Len(part) - 1) = part

\* C25: once the call has built its synthesis request, languageCode is the
\* resolved language, or is left empty when that is "auto"; the key of the
\* call is the digest of a string with the line lang=<resolved language>,
\* "auto" too; and of two calls in a row for the same text, this one and the
\* one before, the keys are equal exactly when the resolved languages are.
C25_LanguageCodeAndKey ==
    /\ rq.pc = "synth" =>
          rq.languageCode = (IF rq.lang = StrAuto THEN <<>> ELSE rq.lang)
    /\ rq.key # NoKey =>
          Occurs(<<NL, "l", "a", "n", "g", "=">> \o rq.lang \o <<NL>>, rq.key[1])
    /\ (/\ prev # <<>> /\ prev[1].before # <<>> /\ rq.key # NoKey
        /\ prev[1].before[1].text = rq.text) =>
          (prev[1].before[1].key = rq.key) <=> (prev[1].before[1].lang = rq.lang)

\* C25 witness: under mode "client" a call that resolved to "auto" follows a
\* call for the same text that resolved to "pl"; their keys differ and this
\* one's synthesis request has no languageCode
C25_Witness ==
    /\ prev # <<>> /\ prev[1].before # <<>> /\ rq.pc = "synth"
    /\ prev[1].before[1].text = rq.text
    /\ prev[1].before[1].lang = StrPl /\ prev[1].before[1].languageCode = StrPl
    /\ rq.lang = StrAuto /\ rq.languageCode = <<>>
    /\ rq.key # NoKey /\ prev[1].before[1].key # rq.key

\* The arguments of a noted call of Key
KeyArgs(c) ==
    <<c.text, c.model, c.voiceID, c.languageCode, c.stability,
      c.similarityBoost, c.optimizeLatency>>

\* Two noted calls of Key differ in the argument at position i and in no
\* other, one of them having nil there
OnlyNilAt(a, b, i) ==
    /\ \A j \in 1..7 : (KeyArgs(a)[j] = KeyArgs(b)[j]) <=> (j # i)
    /\ Nil \in {KeyArgs(a)[i], KeyArgs(b)[i]}

\* C26: of two calls of Key, those with the same arguments gave the same
\* key, and those that differ only in stability, only in similarityBoost or
\* only in optimizeLatency, nil in the one and a value (zero too) in the
\* other, gave different keys.
C26_KeyAbsentVsZero ==
    Len(prev) = 2 =>
        /\ KeyArgs(prev[1]) = KeyArgs(prev[2]) => prev[1].key = prev[2].key
        /\ \A i \in 5..7 : OnlyNilAt(prev[1], prev[2], i) => prev[1].key # prev[2].key

\* C26 witness: Key was called with optimizeLatency nil and, all else equal,
\* with optimizeLatency pointing to 0; the keys differ
C26_Witness ==
    /\ Len(prev) = 2 /\ OnlyNilAt(prev[1], prev[2], 7)
    /\ prev[1].optimizeLatency = <<0>> /\ prev[2].optimizeLatency = Nil
    /\ prev[1].stability = <<0>>
    /\ prev[1].key # prev[2].key

\* C27: two calls of Key whose arguments are not the same, component by
\* component, gave different keys.
C27_KeyInjective ==
    (Len(prev) = 2 /\ KeyArgs(prev[1]) # KeyArgs(prev[2])) => prev[1].key # prev[2].key

\* The call in progress is between its cache calls: at the Synthesizer, at
\* the upstream stream or at the sink
Streaming ==
    rq.pc \in {"synth", "playing", "loop", "readErr", "finish",
               "replayPlaying", "replay"}

\* C28: the goroutine of a StreamSynthesis call holds c.mu only inside its
\* Put (its Get takes and releases it in one step); while the call is at the
\* Synthesizer, the upstream stream or the sink and the other goroutine is
\* outside the cache, c.mu is free and that goroutine's Get and Put can
\* start; and the other goroutine's Put, once inside, can always take its
\* next step, wherever the call is.
C28_LockOnlyInsideCache ==
    /\ mu = 1 => rq.pc = "storing"
    /\ (Streaming /\ cache = "ready" /\ pc[2] = "idle") =>
          /\ mu = 0
          /\ ENABLED Get(2, SharedKey, TRUE)
          /\ ENABLED PutBegin(2, SharedKey, SharedData)
    /\ pc[2] \in {"evict", "write"} =>
          /\ mu = 2
          /\ ENABLED (Evict(2) \/ EvictDone(2) \/ PutWrite(2, WriteOk(call[2].data)))

\* C28 witness: the other goroutine is inside its Put, holding c.mu, while
\* the call has sent its first chunk and is at its next read
C28_Witness ==
    /\ rq.pc = "loop" /\ rq.sequence = 1 /\ Len(Chunks(sent)) = 1
    /\ mu = 2 /\ pc[2] = "write"

\* C29: once a Read of the upstream stream has failed, the call sends
\* nothing but the ERROR and stores nothing: it is at its ERROR or over, it
\* has called Put not once, no FINISHED was sent, and when it is over its
\* final message is the ERROR with the reason of the failed Read and it has
\* returned an error, unless a Send failed and the sink has no terminal
\* message.
C29_ReadError ==
    rq.readErr =>
        /\ rq.pc \in {"readErr", "done"}
        /\ rq.puts = 0
        /\ "FINISHED" \notin Range(Statuses(sent))
        /\ rq.pc = "readErr" => Terminal \cap Range(Statuses(sent)) = {}
        /\ rq.pc = "done" =>
              IF rq.sendFailed
              THEN rq.ret = "send" /\ Terminal \cap Range(Statuses(sent)) = {}
              ELSE /\ sent[Len(sent)].status = "ERROR"
                   /\ sent[Len(sent)].errorMessage = "stream read error: upstream"
                   /\ sent[Len(sent)].chunk = <<>>
                   /\ rq.ret = "error"

\* C29 witness: over a ready cache a live call whose second Read failed has
\* ended with ERROR after one chunk, and its key has no entry
C29_Witness ==
    /\ rq.readErr /\ rq.pc = "done" /\ ~rq.sendFailed
    /\ cache = "ready" /\ rq.gets = 1 /\ rq.reads = 2
    /\ Len(Chunks(sent)) = 1
    /\ sent[Len(sent)].status = "ERROR"
    /\ rq.key \notin DOMAIN entries

\* C30: a live call whose Synthesizer stream had no bytes sends no chunk and
\* calls Put not once; when it ends FINISHED its messages are STARTED,
\* PLAYING, FINISHED, and the FINISHED says total_bytes 0 and total_chunks 0.
C30_EmptyStream ==
    (rq.synthCalls = 1 /\ ~rq.synthErr /\ rq.audio = <<>>) =>
        /\ Chunks(sent) = <<>>
        /\ rq.puts = 0
        /\ Finished =>
              /\ Statuses(sent) = <<"STARTED", "PLAYING", "FINISHED">>
              /\ sent[3].metadata["total_bytes"] = <<"0">>
              /\ sent[3].metadata["total_chunks"] = <<"0">>
              /\ rq.ret = "ok"

\* C30 witness: over a ready cache a call whose stream was empty has ended
\* FINISHED, and the cache has no entry for its key
C30_Witness ==
    /\ rq.synthCalls = 1 /\ ~rq.synthErr /\ rq.audio = <<>>
    /\ Finished /\ rq.reads = 1
    /\ cache = "ready" /\ rq.gets = 1
    /\ rq.key \notin DOMAIN entries

\* The call is over and the sink holds exactly one terminal message, its
\* final one
EndedWithTerminal ==
    /\ rq.pc = "done" /\ sent # <<>>
    /\ \A i \in 1..Len(sent) : (sent[i].status \in Terminal) <=> (i = Len(sent))

\* C31: with a sink that takes every message, every call that got past its
\* validation comes to its end, with exactly one terminal message, the final
\* one, unless it is reading a stream that has no end and is not cancelled.
C31_Terminates ==
    (rq.pc \notin {"idle", "done"}) ~>
        (EndedWithTerminal \/ (rq.endless /\ ctxErr = ""))

\* C31 witness: a call over a stream with no end was cancelled after its
\* reads and has ended with INTERRUPTED
C31_Witness ==
    /\ rq.endless /\ EndedWithTerminal
    /\ rq.reads = MaxReads /\ Len(Chunks(sent)) = MaxReads
    /\ sent[Len(sent)].status = "INTERRUPTED"

\* C32: the eviction loop terminates.  While New or Put is in the loop, every
\* step either takes exactly one entry out of the index or leaves the loop,
\* and a goroutine that is in the loop gets out of it.
C32_EvictTerminates ==
    /\ [][\A p \in Procs : pc[p] = "evict" =>
            \/ pc'[p] = "write" /\ entries' = entries
            \/ /\ pc'[p] = "evict"
               /\ \E k \in DOMAIN entries : entries' = Delete(entries, k)]_vars
    /\ \A p \in Procs : (pc[p] = "evict") ~> (pc[p] = "write")
\* a Put left the loop after two turns
C32_Witness ==
    /\ cache = "ready" /\ pc[1] = "write" /\ Len(call[1].evicted) = 2
    /\ entries = EmptyMap

\* C33: whenever evict has returned with its running total plus the needed
\* size above maxBytes, the index has no entries.
C33_StopsOnlyEmpty ==
    \A p \in Procs :
        (pc[p] = "write" /\ call[p].total + Len(call[p].data) > maxBytes)
            => entries = EmptyMap

\* C34: with one caller and a directory and a disk that do not fail, once New
\* has returned every index entry has its file <key>.pcm, of the length the
\* entry records, and every *.pcm file of the directory has an index entry.
C34_IndexMatchesFiles ==
    cache = "ready" =>
        /\ \A k \in DOMAIN entries :
              /\ entries[k].path = PathOf(k)
              /\ PathOf(k) \in DOMAIN files
              /\ Len(files[PathOf(k)].data) = entries[k].size
        /\ \A n \in Glob(files) :
              KeyOf(n) \in DOMAIN entries /\ entries[KeyOf(n)].path = n
\* a Put on a key already indexed that also evicted another entry: one entry
\* and one file are left
C34_Witness ==
    /\ cache = "ready" /\ last.op = "Put" /\ ~last.err
    /\ last.indexed /\ last.evicted # <<>>
    /\ DOMAIN entries = {last.key}
    /\ Glob(files) = {PathOf(last.key)}

\* C35: at every moment of a stream, the messages sent so far that carry a
\* chunk are numbered 1, 2, 3, ... in the order sent, first is set on number 1
\* and on no other, every message with a chunk has status PLAYING, and
\* STARTED, the first PLAYING and the terminal messages carry no chunk.
C35_ChunkNumbering ==
    /\ \A i \in 1..Len(Chunks(sent)) :
          /\ Chunks(sent)[i].chunk[1].sequence = i
          /\ Chunks(sent)[i].chunk[1].first = (i = 1)
    /\ \A i \in 1..Len(sent) :
          /\ sent[i].chunk # <<>> => sent[i].status = "PLAYING"
          /\ (sent[i].status = "PLAYING" /\ \A j \in 1..(i - 1) : sent[j].status # "PLAYING")
                => sent[i].chunk = <<>>
          /\ sent[i].status \in {"STARTED"} \cup Terminal => sent[i].chunk = <<>>
\* a stream that sent two chunks and ended INTERRUPTED
C35_Witness ==
    /\ rq.pc = "done" /\ Len(Chunks(sent)) = 2
    /\ sent[Len(sent)].status = "INTERRUPTED"
    /\ sent[Len(sent) - 1].chunk # <<>>

\* C36: in every stream that ended with FINISHED, on the replay path and on
\* the live one, total_bytes is the number of payload bytes of the chunks
\* sent and total_chunks is the number of chunk messages, which is the
\* sequence number of the last of them.
C36_FinishedTotals ==
    Finished =>
        LET fin == sent[Len(sent)].metadata
            cs == Chunks(sent)
        IN /\ fin["total_bytes"] = Itoa(Len(Payload(sent)))
           /\ fin["total_chunks"] = Itoa(Len(cs))
           /\ cs # <<>> => fin["total_chunks"] = Itoa(cs[Len(cs)].chunk[1].sequence)
\* a replay of 5000 cached bytes in two chunks that ended with FINISHED
C36_Witness ==
    /\ Finished /\ rq.hit /\ Len(Chunks(sent)) = 2
    /\ sent[Len(sent)].metadata["total_bytes"] = <<"5", "0", "0", "0">>
    /\ sent[Len(sent)].metadata["total_chunks"] = <<"2">>
    /\ sent[Len(sent)].metadata["source"] = "cache"

\* C37: with a cache, a directory and a disk that do not fail, and one call at
\* a time.  When a live call sends FINISHED after streaming bytes that fit the
\* cache, its Put has already returned and the cache holds those bytes under
\* the call's key; the entry is there for as long as the call's messages are;
\* and the Get of the next call, if it is for the same text and language,
\* hits and returns the same bytes.
C37_StoredBeforeFinished ==
    /\ [][(/\ rq.pc = "finish" /\ rq'.pc = "done"
           /\ cache = "ready"
           /\ rq.accumulated # <<>> /\ Len(rq.accumulated) <= maxBytes) =>
              /\ rq.puts = 1
              /\ GetHit(entries, files, rq.key, TRUE)
              /\ GetData(entries, files, rq.key) = rq.accumulated
              /\ entries' = entries /\ files' = files]_vars
    /\ [](/\ Finished /\ ~rq.hit /\ cache = "ready"
          /\ Payload(sent) # <<>> /\ Len(Payload(sent)) <= maxBytes
          => /\ GetHit(entries, files, rq.key, TRUE)
             /\ GetData(entries, files, rq.key) = Payload(sent))
    /\ [][(/\ rq.pc = "lookup" /\ rq'.pc # "lookup"
           /\ prev # <<>>
           /\ prev[1].payload # <<>> /\ Len(prev[1].payload) <= maxBytes
           /\ rq.text = prev[1].text /\ rq.lang = prev[1].lang) =>
              /\ rq'.hit /\ rq'.pc = "replayPlaying"
              /\ rq'.data = prev[1].payload]_vars
\* a live call that streamed 5000 bytes has sent its FINISHED, and the cache
\* holds the 5000 bytes under its key
C37_Witness ==
    /\ Finished /\ ~rq.hit /\ rq.puts = 1 /\ cache = "ready"
    /\ Len(Payload(sent)) = chunkSize + 904
    /\ GetHit(entries, files, rq.key, TRUE)
    /\ GetData(entries, files, rq.key) = Payload(sent)

\* The call of frame f has ended with FINISHED
FrameFinished(f) ==
    f.rq.pc = "done" /\ f.sent # <<>> /\ f.sent[Len(f.sent)].status = "FINISHED"
\* The calls that streamed something the cache has room for
FramesThatFit == {f \in Frames : Payload(f.sent) # <<>> /\ Len(Payload(f.sent)) <= maxBytes}

\* C38: of two calls in flight at once for the same text and language, each
\* one that misses calls the Synthesizer once, numbers its own chunks from 1
\* and, when it ends FINISHED, has streamed the bytes of its own upstream
\* stream; and when both have missed and ended FINISHED, the cache holds for
\* their key one entry and one file, with all the bytes one of the two
\* streamed (no entry if neither streamed bytes that fit the cache).
C38_TwinMisses ==
    /\ \A f \in Frames :
          /\ f.rq.synthCalls <= 1
          /\ (f.rq.gets = 1 /\ ~f.rq.hit /\ f.rq.pc \notin {"lookup", "synth"})
                => f.rq.synthCalls = 1
          /\ f.rq.hit => f.rq.synthCalls = 0
          /\ \A i \in 1..Len(Chunks(f.sent)) : Chunks(f.sent)[i].chunk[1].sequence = i
          /\ (FrameFinished(f) /\ ~f.rq.hit) => Payload(f.sent) = f.rq.audio
    /\ (\A f \in Frames : FrameFinished(f) /\ f.rq.gets = 1 /\ ~f.rq.hit) =>
          /\ Other.rq.key = rq.key
          /\ IF FramesThatFit = {}
             THEN rq.key \notin DOMAIN entries
             ELSE /\ DOMAIN entries = {rq.key}
                  /\ Glob(files) = {PathOf(rq.key)}
                  /\ GetData(entries, files, rq.key) \in
                        {Payload(f.sent) : f \in FramesThatFit}
                  /\ entries[rq.key].size = Len(GetData(entries, files, rq.key))
\* both calls missed, streamed different audio that fits the cache, and
\* ended FINISHED
C38_Witness ==
    /\ \A f \in Frames : FrameFinished(f) /\ f.rq.gets = 1 /\ ~f.rq.hit
    /\ Len(Payload(sent)) = 904 /\ Len(Payload(Other.sent)) = chunkSize + 904
    /\ Len(Chunks(Other.sent)) = 2 /\ Len(Chunks(sent)) = 1
    /\ maxBytes = 2 * chunkSize
    /\ GetData(entries, files, rq.key) = Payload(Other.sent)

\* C39: a call that arrives while the lazy service has no Server yet returns
\* Unavailable with nothing sent and nothing touched (no Synthesizer call, no
\* cache call); a call that arrives once setServer has run is answered by
\* the Server itself, with STARTED or with its ERROR for an empty text; and
\* health says SERVING only when setServer has run.
C39_LazyActivation ==
    /\ [](main.health = "SERVING" => server # <<>>)
    /\ [](rq.ret = "unavailable" =>
            /\ rq.pc = "done" /\ sent = <<>>
            /\ rq.synthCalls = 0 /\ rq.gets = 0 /\ rq.puts = 0)
    /\ [][(rq.pc \in {"idle", "done"} /\ rq' # rq) =>
            IF server = <<>>
            THEN /\ rq'.ret = "unavailable" /\ rq'.pc = "done"
                 /\ sent' = <<>>
                 /\ UNCHANGED cacheVars
            ELSE /\ rq'.ret # "unavailable"
                 /\ sent' # <<>>
                 /\ sent'[1].status \in {"STARTED", "ERROR"}]_vars
\* a call came after the cache was set up and before setServer, and was
\* turned away
C39_Witness ==
    /\ rq.ret = "unavailable" /\ rq.text # <<>>
    /\ cache = "ready" /\ server = <<>>
    /\ main.health = "NOT_SERVING" /\ main.grpc = "serving"

\* C40: once the process has exited after a signal, the gRPC server has
\* stopped: GracefulStop has returned, or Stop was called after the five
\* seconds.
C40_ExitAfterStop == main.pc = "exited" => main.grpc = "stopped"
====
